---- MODULE Spec2Model ----
(***************************************************************************)
(* Astrological derivation engine of the HomeService-App server:          *)
(* nakshatra indexing, Vimshottari dasha timeline, Shad Bala strengths,    *)
(* navamsha (D9), Vedic aspects, whole-sign houses and the Rahu/Ketu       *)
(* derivation of calculate_planet_positions.                               *)
(*                                                                         *)
(* Longitudes are integers counting 1/Res of a degree, so one turn of the  *)
(* zodiac is Circle = 360 * Res units.  Res = 2 gives longitudes that are  *)
(* exact binary floating point numbers (halves of a degree).               *)
(* Strength points are integers counting 1/100 of a point, years of a     *)
(* dasha sub-period are integers counting 1/100 of a year (the code        *)
(* rounds both to two decimals).                                           *)
(***************************************************************************)
EXTENDS Integers, Sequences, FiniteSets, TLC

VARIABLES
    longitude,        \* nakshatra indexer: the base longitude under test
    nak_log,          \* get_nakshatra: shift k -> result for longitude + 360k
    dnak_log,         \* get_nakshatra_from_longitude: shift k -> result
    moon_longitude,   \* DashaCalculator.moon_longitude
    dasha_birth_date, \* DashaCalculator.birth_date
    dasha_call,       \* DashaCalculator: last method called, with its argument
    dasha_ret,        \* DashaCalculator: value returned by that call
    ephemeris,        \* swisseph: ayanamsa and, per planet, what calc_ut does
    topocentric,      \* calculate_planet_positions: lat and lon were given
    positions,        \* calculate_planet_positions: its positions dict
    pp_ret,           \* calculate_planet_positions: returned value or error
    varga_degree,     \* VargaCalculator: the longitude handed to a transform
    varga_call,       \* VargaCalculator: last method called
    varga_ret,        \* VargaCalculator: value returned by that call
    varga_info,       \* VargaCalculator.planets_info
    asp_info,         \* VedicAspectsCalculator.planets_info
    asp_call,         \* VedicAspectsCalculator: last method called
    asp_ret,          \* VedicAspectsCalculator: value returned by that call
    planet_positions, \* assign_planets_to_houses: planet -> longitude
    ascendant,        \* assign_planets_to_houses: ascendant longitude
    houses,           \* assign_planets_to_houses: returned house -> planets
    str_info,         \* StrengthCalculator.planets_info
    birth_hour,       \* StrengthCalculator.birth_date.hour
    str_call,         \* StrengthCalculator: last method called
    str_ret,          \* StrengthCalculator: value returned by that call
    birth_planets,    \* TransitCalculator.birth_planets
    transit_call,     \* TransitCalculator: last method called
    transit_ret,      \* TransitCalculator: value returned by that call
    transit_date,     \* TransitCalculator.transit_date
    transit_sky,      \* planet positions the ephemeris gives from transit_date on
    kundali_call,     \* generate_kundali_logic: the request and what its collaborators did
    kundali_built,    \* generate_kundali_logic: the calculators it constructed
    kundali_ret       \* generate_kundali_logic: the response or the exception

nakVars   == <<longitude, nak_log, dnak_log>>
dashaVars == <<moon_longitude, dasha_birth_date, dasha_call, dasha_ret>>
posVars   == <<ephemeris, topocentric, positions, pp_ret>>
vargaVars == <<varga_degree, varga_call, varga_ret, varga_info>>
aspVars   == <<asp_info, asp_call, asp_ret>>
houseVars == <<planet_positions, ascendant, houses>>
strVars   == <<str_info, birth_hour, str_call, str_ret>>
transitVars == <<birth_planets, transit_call, transit_ret, transit_date, transit_sky>>
kundaliVars == <<kundali_call, kundali_built, kundali_ret>>
vars      == <<nakVars, dashaVars, posVars, vargaVars, aspVars, houseVars, strVars, transitVars,
               kundaliVars>>

\* the variables of the components other than the named one
exceptNak   == <<dashaVars, posVars, vargaVars, aspVars, houseVars, strVars, transitVars, kundaliVars>>
exceptDasha == <<nakVars, posVars, vargaVars, aspVars, houseVars, strVars, transitVars, kundaliVars>>
exceptPos   == <<nakVars, dashaVars, vargaVars, aspVars, houseVars, strVars, transitVars, kundaliVars>>
exceptVarga == <<nakVars, dashaVars, posVars, aspVars, houseVars, strVars, transitVars, kundaliVars>>
exceptAsp   == <<nakVars, dashaVars, posVars, vargaVars, houseVars, strVars, transitVars, kundaliVars>>
exceptHouse == <<nakVars, dashaVars, posVars, vargaVars, aspVars, strVars, transitVars, kundaliVars>>
exceptStr   == <<nakVars, dashaVars, posVars, vargaVars, aspVars, houseVars, transitVars, kundaliVars>>
exceptTransit == <<nakVars, dashaVars, posVars, vargaVars, aspVars, houseVars, strVars, kundaliVars>>
exceptKundali == <<nakVars, dashaVars, posVars, vargaVars, aspVars, houseVars, strVars, transitVars>>

(***************************************************************************)
(* Bounds of the model.                                                    *)
(***************************************************************************)
Res      == 2      \* grid points per degree
MaxShift == 1      \* longitudes L + 360k are tried for k in -MaxShift..MaxShift

Circle == 360 * Res
Shifts == (0 - MaxShift)..MaxShift
NoCall == [op |-> "none"]

(***************************************************************************)
(* Python arithmetic.                                                      *)
(***************************************************************************)
Min(a, b) == IF a < b THEN a ELSE b
Max(a, b) == IF a > b THEN a ELSE b
Abs(a)    == IF a < 0 THEN 0 - a ELSE a
\* int(x) of the fraction n/d (d > 0): truncation toward zero
TruncDiv(n, d) == IF n >= 0 THEN n \div d ELSE 0 - ((0 - n) \div d)
\* round(n/d) to the nearest integer, for n >= 0 and no exact tie
RoundDiv(n, d) == (2 * n + d) \div (2 * d)
\* the list f[1], ..., f[n]
RECURSIVE ListOf(_, _)
ListOf(f, n) == IF n = 0 THEN << >> ELSE Append(ListOf(f, n - 1), f[n])

\* the nine bodies of a chart, in the order calculate_planet_positions
\* inserts them
PlanetOrder ==
    << "Sun", "Moon", "Mars", "Mercury", "Jupiter", "Venus", "Saturn", "Rahu", "Ketu" >>
Planets == {PlanetOrder[i] : i \in 1..Len(PlanetOrder)}

\* planets_info as logic.py builds it: planet -> bare longitude
LongitudeChart == [planet \in Planets |-> [kind |-> "float"]]

\* the first n planets of seq, in order, that belong to keep
RECURSIVE SelectPlanets(_, _, _)
SelectPlanets(seq, n, keep) ==
    IF n = 0 THEN << >>
    ELSE IF seq[n] \in keep THEN Append(SelectPlanets(seq, n - 1, keep), seq[n])
    ELSE SelectPlanets(seq, n - 1, keep)

\* the keys of a planet-keyed dict in insertion order
KeysInOrder(dict) ==
    SelectPlanets(PlanetOrder, Len(PlanetOrder), DOMAIN dict)

(***************************************************************************)
(* utils/astro_utils.py : get_nakshatra                                    *)
(***************************************************************************)
nakshatra_names ==
    << "Ashwini", "Bharani", "Krittika", "Rohini", "Mrigashira",
       "Ardra", "Punarvasu", "Pushya", "Ashlesha", "Magha",
       "Purva Phalguni", "Uttara Phalguni", "Hasta", "Chitra",
       "Swati", "Vishakha", "Anuradha", "Jyeshtha", "Mula",
       "Purva Ashadha", "Uttara Ashadha", "Shravana",
       "Dhanishta", "Shatabhisha", "Purva Bhadrapada",
       "Uttara Bhadrapada", "Revati" >>

\* longitude % 360
Normalize360(lon) == lon % Circle

\* int(longitude / degrees_per_nakshatra), longitude already in [0, 360)
NakshatraIndexOf(lon) == (lon * 27) \div Circle

\* int((longitude % degrees_per_nakshatra) / degrees_per_pada).
\* degrees_per_nakshatra is the double 13.333333333333334, a little more than
\* 40/3, so at a longitude that is an exact multiple of 10/3 degrees past the
\* first nakshatra the remainder of the float % falls just short of the pada
\* boundary and int() yields the pada before it (pada 4 at the very start of
\* a nakshatra).
PadaPositionOf(lon) ==
    LET exact == (((lon * 27) % Circle) * 4) \div Circle
    IN  IF (lon * 108) % Circle = 0 /\ lon * 27 >= Circle
        THEN (exact + 3) % 4
        ELSE exact

\* get_nakshatra without "longitude = longitude % 360"
get_nakshatra_no_normalize(lon) ==
    LET raw   == NakshatraIndexOf(lon)
        index == IF raw < 0 \/ raw >= 27 THEN 0 ELSE raw
        p0    == PadaPositionOf(lon) + 1
        pada  == IF p0 < 1 \/ p0 > 4 THEN 1 ELSE p0
    IN  [index |-> index, name |-> nakshatra_names[index + 1], pada |-> pada]

get_nakshatra(lon) ==
    LET l360  == Normalize360(lon)
        raw   == NakshatraIndexOf(l360)
        index == IF raw < 0 \/ raw >= 27 THEN 0 ELSE raw
        p0    == PadaPositionOf(l360) + 1
        pada  == IF p0 < 1 \/ p0 > 4 THEN 1 ELSE p0
    IN  [index |-> index, name |-> nakshatra_names[index + 1], pada |-> pada]

(***************************************************************************)
(* datetime, as the handlers use it: strptime and the day count of a date  *)
(***************************************************************************)
\* the characters c with c.isspace(), which the pattern \s of a format also
\* matches, that a string can hold: tab, newline, vertical tab, form feed,
\* carriage return, the separators 0x1C-0x1F, the blank, NEL 0x85, NBSP 0xA0
\* and U+1680
whitespace ==
    {"\t", "\n", "", "\f", "\r", "", "",
     "", "", " ", "", " ", " "}

\* the decimal digits, which the pattern \d matches and int() converts, that
\* a string can hold; the digit of value d stands at position d + 1
decimal_digits ==
    << "0123456789",
       "۰۱۲۳۴۵۶۷۸۹",
       "߀߁߂߃߄߅߆߇߈߉",
       "০১২৩৪৫৬৭৮৯",
       "૦૧૨૩૪૫૬૭૮૯",
       "௦௧௨௩௪௫௬௭௮௯",
       "೦೧೨೩೪೫೬೭೮೯",
       "෦෧෨෩෪෫෬෭෮෯",
       "໐໑໒໓໔໕໖໗໘໙",
       "႐႑႒႓႔႕႖႗႘႙",
       "០១២៣៤៥៦៧៨៩",
       "᧐᧑᧒᧓᧔᧕᧖᧗᧘᧙",
       "᪀᪁᪂᪃᪄᪅᪆᪇᪈᪉",
       "᪐᪑᪒᪓᪔᪕᪖᪗᪘᪙",
       "᮰᮱᮲᮳᮴᮵᮶᮷᮸᮹",
       "꣐꣑꣒꣓꣔꣕꣖꣗꣘꣙",
       "꧐꧑꧒꧓꧔꧕꧖꧗꧘꧙",
       "꧰꧱꧲꧳꧴꧵꧶꧷꧸꧹",
       "꯰꯱꯲꯳꯴꯵꯶꯷꯸꯹" >>

ValueError == [raised |-> "ValueError"]

\* date.toordinal(): the number of the day, 0001-01-01 being day 1
toordinal(date) ==
    LET before     == date.year - 1
        leap       == date.year % 4 = 0 /\ (date.year % 100 # 0 \/ date.year % 400 = 0)
        month_days == <<0, 31, 59, 90, 120, 151, 181, 212, 243, 273, 304, 334>>
    IN  before * 365 + (before \div 4) - (before \div 100) + (before \div 400)
        + month_days[date.month]
        + (IF date.month > 2 /\ leap THEN 1 ELSE 0)
        + date.day

\* date.fromordinal(n) for 1 <= n <= 3652059
fromordinal(n) ==
    LET first_day(y, m) == toordinal([year |-> y, month |-> m, day |-> 1])
        year  == CHOOSE y \in ((n \div 366) + 1)..((n \div 365) + 1) :
                     first_day(y, 1) <= n /\ n < first_day(y + 1, 1)
        month == CHOOSE m \in 1..12 :
                     first_day(year, m) <= n /\ (m = 12 \/ n < first_day(year, m + 1))
    IN  [year |-> year, month |-> month, day |-> n - first_day(year, month) + 1]

\* the character at position k of data_string, "" past either end
char_at(data_string, k) ==
    IF 1 <= k /\ k <= Len(data_string) THEN SubSeq(data_string, k, k) ELSE ""

\* int(ch) for one character: the value of a decimal digit of any script,
\* -1 for a character \d does not match
digit_value(ch) ==
    LET hits == {d \in 0..9 : \E n \in 1..Len(decimal_digits) :
                    SubSeq(decimal_digits[n], d + 1, d + 1) = ch}
    IN  IF hits = {} THEN 0 - 1 ELSE CHOOSE d \in hits : TRUE

\* ch matches the character class [lo-hi] of ASCII digits
in_class(ch, lo, hi) ==
    \E d \in lo..hi : ch = SubSeq("0123456789", d + 1, d + 1)

\* the number of characters (1[0-2]|0[1-9]|[1-9]) takes at position k, 0 when
\* it does not match there
regex_m(data_string, k) ==
    LET first  == char_at(data_string, k)
        second == char_at(data_string, k + 1)
    IN  IF first = "1" /\ in_class(second, 0, 2) THEN 2
        ELSE IF first = "0" /\ in_class(second, 1, 9) THEN 2
        ELSE IF in_class(first, 1, 9) THEN 1
        ELSE 0

\* the same for (3[0-1]|[1-2]\d|0[1-9]|[1-9]| [1-9])
regex_d(data_string, k) ==
    LET first  == char_at(data_string, k)
        second == char_at(data_string, k + 1)
    IN  IF first = "3" /\ in_class(second, 0, 1) THEN 2
        ELSE IF in_class(first, 1, 2) /\ digit_value(second) >= 0 THEN 2
        ELSE IF first = "0" /\ in_class(second, 1, 9) THEN 2
        ELSE IF in_class(first, 1, 9) THEN 1
        ELSE IF first = " " /\ in_class(second, 1, 9) THEN 2
        ELSE 0

\* the same for (2[0-3]|[0-1]\d|\d)
regex_H(data_string, k) ==
    LET first  == char_at(data_string, k)
        second == char_at(data_string, k + 1)
    IN  IF first = "2" /\ in_class(second, 0, 3) THEN 2
        ELSE IF in_class(first, 0, 1) /\ digit_value(second) >= 0 THEN 2
        ELSE IF digit_value(first) >= 0 THEN 1
        ELSE 0

\* the same for ([0-5]\d|\d)
regex_M(data_string, k) ==
    LET first  == char_at(data_string, k)
        second == char_at(data_string, k + 1)
    IN  IF in_class(first, 0, 5) /\ digit_value(second) >= 0 THEN 2
        ELSE IF digit_value(first) >= 0 THEN 1
        ELSE 0

\* the position after the run of whitespace that starts at position k (k itself
\* when there is none): \s+ takes the whole run, as the hour cannot start
\* with whitespace
regex_s(data_string, k) ==
    CHOOSE after \in k..(Len(data_string) + 1) :
        /\ char_at(data_string, after) \notin whitespace
        /\ \A j \in k..(after - 1) : char_at(data_string, j) \in whitespace

\* int() of the group of n characters at position k; the group " 7" of %d
\* gives 7
group_int(data_string, k, n) ==
    LET first  == char_at(data_string, k)
        second == char_at(data_string, k + 1)
    IN  IF n = 1 THEN digit_value(first)
        ELSE (IF first = " " THEN 0 ELSE 10 * digit_value(first))
             + digit_value(second)

\* datetime(year, month, day, hour, minute), ValueError when the day does not
\* exist or the year is 0
datetime(year, month, day, hour, minute) ==
    LET leap          == year % 4 = 0 /\ (year % 100 # 0 \/ year % 400 = 0)
        days_in_month == IF month = 2 THEN (IF leap THEN 29 ELSE 28)
                         ELSE IF month \in {4, 6, 9, 11} THEN 30
                         ELSE 31
    IN  IF year >= 1 /\ day <= days_in_month
        THEN [year |-> year, month |-> month, day |-> day,
              hour |-> hour, minute |-> minute]
        ELSE ValueError

\* the groups of the time part  \s+(2[0-3]|[0-1]\d|\d):([0-5]\d|\d)  matched
\* from position k to the end of data_string
time_groups(data_string, k) ==
    LET H_at  == regex_s(data_string, k)
        H_len == regex_H(data_string, H_at)
        M_at  == H_at + H_len + 1
        M_len == regex_M(data_string, M_at)
    IN  IF /\ H_at > k
           /\ H_len > 0
           /\ char_at(data_string, H_at + H_len) = ":"
           /\ M_len > 0
           /\ M_at + M_len = Len(data_string) + 1
        THEN [hour   |-> group_int(data_string, H_at, H_len),
              minute |-> group_int(data_string, M_at, M_len)]
        ELSE ValueError

\* the groups of the date part  (\d\d\d\d)-(1[0-2]|0[1-9]|[1-9])-(3[0-1]|...)
\* matched at the start of data_string, and the position after them
date_groups(data_string) ==
    LET m_len == regex_m(data_string, 6)
        d_at  == 6 + m_len + 1
        d_len == regex_d(data_string, d_at)
    IN  IF /\ \A k \in 1..4 : digit_value(char_at(data_string, k)) >= 0
           /\ char_at(data_string, 5) = "-"
           /\ m_len > 0
           /\ char_at(data_string, 6 + m_len) = "-"
           /\ d_len > 0
        THEN [year  |-> 1000 * digit_value(char_at(data_string, 1))
                        + 100 * digit_value(char_at(data_string, 2))
                        + 10 * digit_value(char_at(data_string, 3))
                        + digit_value(char_at(data_string, 4)),
              month |-> group_int(data_string, 6, m_len),
              day   |-> group_int(data_string, d_at, d_len),
              end   |-> d_at + d_len]
        ELSE ValueError

\* datetime.strptime(data_string, "%Y-%m-%d") and, with_time,
\* datetime.strptime(data_string, "%Y-%m-%d %H:%M").  The format is the pattern
\*   (\d\d\d\d)-(1[0-2]|0[1-9]|[1-9])-(3[0-1]|[1-2]\d|0[1-9]|[1-9]| [1-9])
\* followed, with_time, by  \s+(2[0-3]|[0-1]\d|\d):([0-5]\d|\d) ; it is matched
\* at the start of data_string and must use all of it, and the date must
\* exist.  In each group the first alternative that matches is the only one
\* after which the rest of the pattern can match.
strptime(data_string, with_time) ==
    LET date == date_groups(data_string)
    IN  IF date = ValueError THEN ValueError
        ELSE IF ~with_time
        THEN IF date.end = Len(data_string) + 1
             THEN datetime(date.year, date.month, date.day, 0, 0)
             ELSE ValueError
        ELSE LET time == time_groups(data_string, date.end)
             IN  IF time = ValueError THEN ValueError
                 ELSE datetime(date.year, date.month, date.day,
                               time.hour, time.minute)

\* datetime.strptime(birthDate, "%Y-%m-%d")
strptime_date(birthDate) == strptime(birthDate, FALSE)

(***************************************************************************)
(* services/dasha_calculator.py : DashaCalculator                          *)
(***************************************************************************)
DASHA_ORDER ==
    << "Ketu", "Venus", "Sun", "Moon", "Mars", "Rahu", "Jupiter", "Saturn", "Mercury" >>

DASHA_DURATIONS ==
    [p \in {DASHA_ORDER[i] : i \in 1..9} |->
        CASE p = "Ketu"    -> 7
          [] p = "Venus"   -> 20
          [] p = "Sun"     -> 6
          [] p = "Moon"    -> 10
          [] p = "Mars"    -> 7
          [] p = "Rahu"    -> 18
          [] p = "Jupiter" -> 16
          [] p = "Saturn"  -> 19
          [] p = "Mercury" -> 17]

dasha_nakshatra_names ==
    << "Ashwini", "Bharani", "Krittika", "Rohini", "Mrigashira",
       "Ardra", "Punarvasu", "Pushya", "Ashlesha", "Magha",
       "Purva Phalguni", "Uttara Phalguni", "Hasta", "Chitra",
       "Swati", "Vishakha", "Anuradha", "Jyeshtha", "Mula",
       "Purva Ashadha", "Uttara Ashadha", "Abhijit", "Shravana",
       "Dhanishta", "Shatabhisha", "Purva Bhadrapada", "Uttara Bhadrapada" >>

get_nakshatra_from_longitude(lon) ==
    LET l360          == Normalize360(lon)
        nakshatra_num == Min(NakshatraIndexOf(l360), 26)
    IN  [num |-> nakshatra_num, name |-> dasha_nakshatra_names[nakshatra_num + 1]]

\* lord_index = (nakshatra_num // 3) % 9 with the "// 3" left out
get_dasha_lord_every_segment(nakshatra_num) == DASHA_ORDER[(nakshatra_num % 9) + 1]

get_dasha_lord_from_nakshatra(nakshatra_num) ==
    LET lord_index == (nakshatra_num \div 3) % 9
    IN  DASHA_ORDER[lord_index + 1]

\* DASHA_ORDER.index(planet), 0-based
DashaOrderIndex(planet) == CHOOSE i \in 0..8 : DASHA_ORDER[i + 1] = planet

\* moon_position_in_nakshatra clamped to [0, 1], as a count of 1/Circle
MoonPositionInNakshatra(lon) ==
    LET nakshatra_num == get_nakshatra_from_longitude(lon).num
    IN  Max(0, Min(Circle, 27 * lon - nakshatra_num * Circle))

\* calculate_dasha_balance: remaining_years and remaining_months are counts of
\* 1/Circle of a year and of a month
calculate_dasha_balance(lon) ==
    LET nakshatra_num == get_nakshatra_from_longitude(lon).num
        lord          == get_dasha_lord_from_nakshatra(nakshatra_num)
        remaining     == DASHA_DURATIONS[lord] * (Circle - MoonPositionInNakshatra(lon))
    IN  [lord |-> lord, remaining_years |-> remaining, remaining_months |-> remaining * 12]

\* current_age_in_dasha = duration - duration * (1 - position) is evaluated in
\* doubles.  Where the exact age is a whole number of years strictly inside the
\* period the double can fall just short of that whole number, so that
\* int(-age) is one more than the exact value; AgeRoundings lists the outcomes
\* (0: exact, 1: just short).
AgeRoundings(lon) ==
    LET pos == MoonPositionInNakshatra(lon)
    IN  IF 0 < pos /\ pos < Circle THEN {0, 1} ELSE {0}

\* calculate_maha_dasha_timeline with "dasha_index = i % 9": the rotation
\* always starts at Ketu instead of at starting_index
MahaTimelineFromKetu(lon, short) ==
    LET bal         == calculate_dasha_balance(lon)
        age         == DASHA_DURATIONS[bal.lord] * Circle - bal.remaining_years
        PlanetAt(i) == DASHA_ORDER[(i % 9) + 1]
        Cumulative[i \in 0..8] ==
            IF i = 0 THEN 2 * (0 - age) + short
            ELSE Cumulative[i - 1] + 2 * Circle * DASHA_DURATIONS[PlanetAt(i - 1)]
    IN  ListOf([i \in 1..9 |->
            LET planet     == PlanetAt(i - 1)
                duration   == DASHA_DURATIONS[planet]
                start_year == TruncDiv(Cumulative[i - 1], 2 * Circle)
            IN  [planet |-> planet,
                 duration |-> duration,
                 start_year |-> start_year,
                 end_year |-> start_year + duration,
                 is_current |-> (i = 1),
                 remaining_years |-> IF i = 1 THEN <<bal.remaining_years>> ELSE << >>]], 9)

\* calculate_maha_dasha_timeline; remaining_years is << >> for None
calculate_maha_dasha_timeline(lon, short) ==
    LET bal            == calculate_dasha_balance(lon)
        age            == DASHA_DURATIONS[bal.lord] * Circle - bal.remaining_years
        starting_index == DashaOrderIndex(bal.lord)
        PlanetAt(i)    == DASHA_ORDER[((starting_index + i) % 9) + 1]
        \* cumulative_years before period i (0-based), in 1/(2*Circle) years
        Cumulative[i \in 0..8] ==
            IF i = 0 THEN 2 * (0 - age) + short
            ELSE Cumulative[i - 1] + 2 * Circle * DASHA_DURATIONS[PlanetAt(i - 1)]
    IN  ListOf([i \in 1..9 |->
            LET planet     == PlanetAt(i - 1)
                duration   == DASHA_DURATIONS[planet]
                start_year == TruncDiv(Cumulative[i - 1], 2 * Circle)
            IN  [planet |-> planet,
                 duration |-> duration,
                 start_year |-> start_year,
                 end_year |-> start_year + duration,
                 is_current |-> (i = 1),
                 remaining_years |-> IF i = 1 THEN <<bal.remaining_years>> ELSE << >>]], 9)

\* calculate_antar_dasha returning the exact quotient scaled by 100 without
\* rounding it to a whole number of hundredths (truncation instead)
AntarDashaTruncated(lon, maha_dasha_lord) ==
    LET lord          == IF maha_dasha_lord = "None"
                         THEN calculate_dasha_balance(lon).lord ELSE maha_dasha_lord
        maha_duration == DASHA_DURATIONS[lord]
    IN  ListOf([i \in 1..9 |->
            LET planet_duration == DASHA_DURATIONS[DASHA_ORDER[i]]
            IN  [planet |-> DASHA_ORDER[i],
                 duration_years  |-> (maha_duration * planet_duration * 100) \div 120,
                 duration_months |-> (maha_duration * planet_duration * 12) \div 120,
                 duration_days   |-> (maha_duration * planet_duration * 1461) \div 480,
                 is_current |-> FALSE]], 9)

\* calculate_antar_dasha; duration_years is round(years, 2) counted in 1/100
\* year, duration_months int(years * 12), duration_days int(years * 365.25)
calculate_antar_dasha(lon, maha_dasha_lord) ==
    LET lord          == IF maha_dasha_lord = "None"
                         THEN calculate_dasha_balance(lon).lord ELSE maha_dasha_lord
        maha_duration == DASHA_DURATIONS[lord]
    IN  ListOf([i \in 1..9 |->
            LET planet_duration == DASHA_DURATIONS[DASHA_ORDER[i]]
            IN  [planet |-> DASHA_ORDER[i],
                 duration_years  |-> RoundDiv(maha_duration * planet_duration * 100, 120),
                 duration_months |-> (maha_duration * planet_duration * 12) \div 120,
                 duration_days   |-> (maha_duration * planet_duration * 1461) \div 480,
                 is_current |-> FALSE]], 9)

\* dasha_start_date = self.birth_date + timedelta(days=-remaining_years * 365.25)
\* or dasha_end_date = dasha_start_date + timedelta(days=dasha_duration * 365.25)
\* raises OverflowError: the day of the sum is outside 0001-01-01 .. 9999-12-31
\* (ordinals 1 .. 3652059).  Instants are counted from the midnight of the
\* birth day in 1/(4 * Circle) day: a minute is Res of them, remaining_years
\* (in 1/Circle year) times 365.25 days is remaining_years * 1461.
DashaDatesOverflow(birth_date, lon) ==
    LET bal        == calculate_dasha_balance(lon)
        ordinal    == toordinal(birth_date)
        start      == (birth_date.hour * 60 + birth_date.minute) * Res
                      - bal.remaining_years * 1461
        end        == start + DASHA_DURATIONS[bal.lord] * 1461 * Circle
        start_day  == ordinal + (start \div (4 * Circle))
        end_day    == ordinal + (end \div (4 * Circle))
    IN  start_day < 1 \/ start_day > 3652059 \/ end_day < 1 \/ end_day > 3652059

\* calculate_complete_dasha_info without the calendar dates and the rounded
\* remaining/completed years of the returned dict; the except branch returns
\* the error dict ([] is << >>, None is "None")
calculate_complete_dasha_info(birth_date, lon, short) ==
    IF DashaDatesOverflow(birth_date, lon)
    THEN [error                |-> "date value out of range",
          current_maha_dasha   |-> "None",
          maha_dasha_timeline  |-> << >>,
          antar_dasha_timeline |-> << >>]
    ELSE
         LET bal            == calculate_dasha_balance(lon)
             nak            == get_nakshatra_from_longitude(lon)
             maha_timeline  == calculate_maha_dasha_timeline(lon, short)
             antar_timeline == calculate_antar_dasha(lon, bal.lord)
         IN  [moon_nakshatra |-> nak.name,
              moon_nakshatra_number |-> nak.num,
              current_maha_dasha |-> bal.lord,
              maha_dasha_duration_years |-> DASHA_DURATIONS[bal.lord],
              current_antar_dasha |-> antar_timeline[1].planet,
              current_antar_dasha_duration_days |-> antar_timeline[1].duration_days,
              maha_dasha_timeline |-> maha_timeline,
              antar_dasha_timeline |-> antar_timeline,
              next_dasha_lord |-> maha_timeline[2].planet]

(***************************************************************************)
(* utils/astro_utils.py : get_zodiac_sign, calculate_planet_positions      *)
(***************************************************************************)
zodiac_signs ==
    << "Aries", "Taurus", "Gemini", "Cancer", "Leo", "Virgo",
       "Libra", "Scorpio", "Sagittarius", "Capricorn", "Aquarius", "Pisces" >>

get_zodiac_sign(lon) ==
    LET raw        == (lon % Circle) \div (30 * Res)
        sign_index == IF raw < 0 \/ raw > 11 THEN 0 ELSE raw
    IN  zodiac_signs[sign_index + 1]

\* the planets dict of calculate_planet_positions, in its order
EphemerisPlanets ==
    << "Sun", "Moon", "Mars", "Mercury", "Jupiter", "Venus", "Saturn", "Rahu" >>

\* What swisseph.calc_ut does for one planet:
\*   "ok"               the first call returns a position and no error text
\*   "error_text"       the first call returns an error text; a second call
\*                      (made only with the topocentric flag) returns none
\*   "error_text_twice" both calls return an error text
\*   "raise"            the first call raises, the call with basic flags works
\*   "raise_twice"      both calls raise
CalcOutcomes == {"ok", "error_text", "error_text_twice", "raise", "raise_twice"}

\* the planet gets an entry in positions
PlanetIsStored(e, topo) ==
    \/ e.outcome \in {"ok", "error_text", "raise"}
    \/ e.outcome = "error_text_twice" /\ ~topo

\* positions[planet_name] as stored by the loop body (speed in 1/100 degree
\* per day)
PositionEntry(e, ayanamsa) ==
    LET sidereal_longitude == (e.tropical_longitude - ayanamsa) % Circle
        speed              == IF e.outcome = "raise" THEN 0 ELSE e.speed
    IN  [longitude |-> sidereal_longitude,
         tropical_longitude |-> e.tropical_longitude,
         speed |-> speed,
         is_retrograde |-> IF e.outcome = "raise" THEN FALSE ELSE speed < 0,
         sign |-> get_zodiac_sign(sidereal_longitude),
         degree_in_sign |-> sidereal_longitude % (30 * Res)]

\* positions["Ketu"], derived from positions["Rahu"]
KetuEntry(rahu) ==
    LET ketu_longitude == (rahu.longitude + 180 * Res) % Circle
    IN  [longitude |-> ketu_longitude,
         tropical_longitude |-> (rahu.tropical_longitude + 180 * Res) % Circle,
         speed |-> 0 - rahu.speed,
         is_retrograde |-> rahu.speed > 0,
         sign |-> get_zodiac_sign(ketu_longitude),
         degree_in_sign |-> ketu_longitude % (30 * Res)]

\* the positions dict after the loop over the first n planets
RECURSIVE PositionsAfter(_, _, _)
PositionsAfter(eph, topo, n) ==
    IF n = 0 THEN << >>
    ELSE LET before == PositionsAfter(eph, topo, n - 1)
             planet == EphemerisPlanets[n]
         IN  IF PlanetIsStored(eph.planets[planet], topo)
             THEN before @@ (planet :> PositionEntry(eph.planets[planet], eph.ayanamsa))
             ELSE before

\* the positions dict once Ketu has been added
PositionsWithKetu(eph, topo) ==
    LET computed == PositionsAfter(eph, topo, Len(EphemerisPlanets))
    IN  IF "Rahu" \in DOMAIN computed
        THEN computed @@ ("Ketu" :> KetuEntry(computed["Rahu"]))
        ELSE computed

\* simple_positions: planet -> longitude, built by folding over the planets
RECURSIVE SimplePositions(_, _)
SimplePositions(pos, names) ==
    IF names = {} THEN << >>
    ELSE LET planet == CHOOSE q \in names : TRUE
         IN  (planet :> pos[planet].longitude) @@ SimplePositions(pos, names \ {planet})

calculate_planet_positions(eph, topo) ==
    LET pos == PositionsWithKetu(eph, topo)
    IN  IF DOMAIN pos = {}
        THEN [status |-> "RuntimeError", value |-> << >>]
        ELSE [status |-> "ok", value |-> SimplePositions(pos, DOMAIN pos)]

(***************************************************************************)
(* utils/varga_calculator.py : VargaCalculator                             *)
(***************************************************************************)
SIGNS ==
    << "Aries", "Taurus", "Gemini", "Cancer", "Leo", "Virgo",
       "Libra", "Scorpio", "Sagittarius", "Capricorn", "Aquarius", "Pisces" >>

\* _calculate_navamsha counting the navamsha signs from the planet's own sign:
\* navamsha_sign_num = (sign_num + navamsha_in_sign) % 12
NavamshaCountedFromOwnSign(degree) ==
    LET d360             == degree % Circle
        sign_num         == d360 \div (30 * Res)
        position_in_sign == d360 % (30 * Res)
        navamsha_in_sign == (position_in_sign * 9) \div (30 * Res)
    IN  [navamsha_number |-> navamsha_in_sign,
         navamsha_sign |-> SIGNS[((sign_num + navamsha_in_sign) % 12) + 1]]

\* _calculate_navamsha(degree, sign); the sign argument is not used
_calculate_navamsha(degree) ==
    LET d360              == degree % Circle
        sign_num          == d360 \div (30 * Res)
        position_in_sign  == d360 % (30 * Res)
        navamsha_in_sign  == (position_in_sign * 9) \div (30 * Res)
        navamsha_absolute == (sign_num * 9) + navamsha_in_sign
        navamsha_sign_num == navamsha_absolute % 12
    IN  [navamsha_number |-> navamsha_in_sign,
         navamsha_sign |-> SIGNS[navamsha_sign_num + 1]]

_get_navamsha_pada(navamsha_num) == ((navamsha_num % 9) \div 3) + 1

\* int(degree / saptamsha_size) with saptamsha_size = 360 / 7
_calculate_saptamsha_number(degree) ==
    LET d360 == degree % Circle
    IN  (d360 * 7) \div Circle

\* _calculate_saptamsha_sign(degree, sign): degree is first reduced to the
\* position in the sign, sign_num = int(degree / 30) is taken from that
_calculate_saptamsha_sign(degree) ==
    LET position_in_sign == degree % (30 * Res)
        sign_num         == position_in_sign \div (30 * Res)
    IN  SIGNS[(sign_num % 12) + 1]

saptamsha_interpretations ==
    << "Weak children - needs special care",
       "Average children - moderate support needed",
       "Good children - positive influence",
       "Excellent children - very favorable",
       "Very strong progeny - highly beneficial",
       "Extraordinary children - exceptional benefits",
       "Highly auspicious for children" >>

_get_saptamsha_interpretation(saptamsha_num) ==
    saptamsha_interpretations[(saptamsha_num % 7) + 1]

\* what the loop of calculate_saptamsha_chart derives from one longitude
SaptamshaPlacement(degree) ==
    LET saptamsha_num == _calculate_saptamsha_number(degree)
    IN  [original_degree  |-> degree,
         saptamsha_number |-> saptamsha_num,
         saptamsha_sign   |-> _calculate_saptamsha_sign(degree),
         interpretation   |-> _get_saptamsha_interpretation(saptamsha_num)]

\* navamsha_chart['planets'] as built by the loop of calculate_navamsha_chart
\* (the entries that compare_d1_d9_alignment reads)
NavamshaChartPlanets(info) ==
    [planet \in {q \in DOMAIN info : info[q].kind = "dict"} |->
        LET navamsha == _calculate_navamsha(info[planet].longitude)
        IN  [original_degree |-> info[planet].longitude,
             original_sign   |-> info[planet].sign,
             navamsha_number |-> navamsha.navamsha_number,
             navamsha_sign   |-> navamsha.navamsha_sign,
             pada            |-> _get_navamsha_pada(navamsha.navamsha_number)]]

_interpret_alignment(score) ==
    IF score >= 60 THEN "Excellent alignment - Life is well-supported by hidden nature"
    ELSE IF score >= 40 THEN "Good alignment - Generally harmonious development"
    ELSE IF score >= 20 THEN "Moderate alignment - Some adjustments needed"
    ELSE "Weak alignment - Significant differences between apparent and true nature"

\* bool(sign) of a sign that is a string or None ("None"): '' and None are
\* false
bool(sign) == sign # "None" /\ sign # ""

\* alignment_score and details after the loop has handled the first n keys;
\* a detail is <<planet, rest of the sentence>>, a sign of "None" is None
RECURSIVE AlignmentAfter(_, _, _, _)
AlignmentAfter(info, d9_planets, keys, n) ==
    IF n = 0 THEN [alignment_score |-> 0, details |-> << >>]
    ELSE LET before  == AlignmentAfter(info, d9_planets, keys, n - 1)
             planet  == keys[n]
             d1_sign == info[planet].sign
             d9_sign == IF planet \in DOMAIN d9_planets
                        THEN d9_planets[planet].navamsha_sign ELSE "None"
         IN  IF bool(d1_sign) /\ bool(d9_sign)
             THEN IF d1_sign = d9_sign
                  THEN [alignment_score |-> before.alignment_score + 10,
                        details |-> Append(before.details,
                            <<planet, "in same sign in D1 and D9 - Strong alignment">>)]
                  ELSE [alignment_score |-> before.alignment_score,
                        details |-> Append(before.details,
                            <<planet, "in different signs - Check compatibility">>)]
             ELSE before

\* compare_d1_d9_alignment; {} is << >>; alignment_percentage, the double
\* (alignment_score / 90) * 100, is kept as the fraction it approximates
compare_d1_d9_alignment(info) ==
    IF \E planet \in DOMAIN info : info[planet].kind = "float"
    THEN << >>
    ELSE LET keys   == KeysInOrder(info)
             result == AlignmentAfter(info, NavamshaChartPlanets(info), keys, Len(keys))
         IN  [alignment_score      |-> result.alignment_score,
              max_score            |-> 90,
              alignment_percentage |-> [numerator   |-> result.alignment_score * 100,
                                        denominator |-> 90],
              details              |-> result.details,
              interpretation       |-> _interpret_alignment(result.alignment_score)]

(***************************************************************************)
(* utils/aspects_calculator.py : VedicAspectsCalculator                    *)
(***************************************************************************)
\* SPECIAL_ASPECTS[planet]['aspects']
SPECIAL_ASPECTS ==
    [planet \in {"Mars", "Jupiter", "Saturn"} |->
        CASE planet = "Mars"    -> <<4, 8, 7>>
          [] planet = "Jupiter" -> <<5, 9, 7>>
          [] planet = "Saturn"  -> <<3, 10, 7>>]

\* self.planets_info.get(planet, {}).get('house', 1)
HouseOfPlanet(info, planet) ==
    IF planet \in DOMAIN info THEN info[planet].house ELSE 1

\* get_standard_aspects counting the 7th house as 7 houses further on
StandardAspectSevenAhead(info, planet) ==
    LET planet_house == HouseOfPlanet(info, planet)
    IN  <<((planet_house - 1 + 7) % 12) + 1>>

get_standard_aspects(info, planet) ==
    LET planet_house   == HouseOfPlanet(info, planet)
        seventh_aspect == ((planet_house - 1 + 6) % 12) + 1
    IN  <<seventh_aspect>>

get_special_aspects(info, planet) ==
    IF planet \in DOMAIN SPECIAL_ASPECTS
    THEN LET planet_house    == HouseOfPlanet(info, planet)
             special_aspects == SPECIAL_ASPECTS[planet]
         IN  ListOf([i \in 1..Len(special_aspects) |->
                        ((planet_house - 1 + special_aspects[i]) % 12) + 1],
                    Len(special_aspects))
    ELSE << >>

get_all_aspects_for_planet(info, planet) ==
    [standard |-> get_standard_aspects(info, planet),
     special  |-> get_special_aspects(info, planet)]

\* the keys of SPECIAL_ASPECTS in the order of the dict
SpecialAspectPlanets == << "Mars", "Jupiter", "Saturn" >>

SpecialAspectDescription(planet) ==
    CASE planet = "Mars"    -> "Mars has special aspects to 4th, 8th, and 7th houses"
      [] planet = "Jupiter" -> "Jupiter has special aspects to 5th, 9th, and 7th houses"
      [] planet = "Saturn"  -> "Saturn has special aspects to 3rd, 10th, and 7th houses"

\* list.sort(key = aspect_count, reverse = True): a stable sort, entries of
\* equal count keep their order
RECURSIVE SortByAspectCount(_)
SortByAspectCount(list) ==
    IF Len(list) <= 1 THEN list
    ELSE LET sorted == SortByAspectCount(SubSeq(list, 1, Len(list) - 1))
             last   == list[Len(list)]
             ahead  == {i \in 1..Len(sorted) : sorted[i].aspect_count >= last.aspect_count}
             k      == IF ahead = {} THEN 0 ELSE CHOOSE i \in ahead : \A j \in ahead : j <= i
         IN  SubSeq(sorted, 1, k) \o <<last>> \o SubSeq(sorted, k + 1, Len(sorted))

\* the entries appended by the loop of get_strongest_aspects for the first n
\* keys of SPECIAL_ASPECTS that belong to listed
RECURSIVE StrongestEntries(_, _)
StrongestEntries(listed, n) ==
    IF n = 0 THEN << >>
    ELSE LET planet == SpecialAspectPlanets[n]
             before == StrongestEntries(listed, n - 1)
         IN  IF planet \in listed
             THEN Append(before,
                         [planet          |-> planet,
                          aspect_count    |-> Len(SPECIAL_ASPECTS[planet]),
                          special_aspects |-> SPECIAL_ASPECTS[planet],
                          significance    |-> "very strong",
                          description     |-> SpecialAspectDescription(planet)])
             ELSE before

\* get_strongest_aspects without "if planet in self.planets_info"
StrongestAspectsOfAllSpecialPlanets(info) ==
    SortByAspectCount(StrongestEntries({"Mars", "Jupiter", "Saturn"}, Len(SpecialAspectPlanets)))

get_strongest_aspects(info) ==
    SortByAspectCount(StrongestEntries(DOMAIN info, Len(SpecialAspectPlanets)))

(***************************************************************************)
(* utils/astro_utils.py : assign_planets_to_houses                         *)
(***************************************************************************)
\* house of a planet computed without the wrap-around:
\* house = planet_sign - asc_sign + 1
HouseWithoutWrap(position, asc) ==
    LET asc_sign    == ((asc % Circle) \div (30 * Res)) + 1
        planet_sign == ((position % Circle) \div (30 * Res)) + 1
        house       == planet_sign - asc_sign + 1
    IN  IF house < 1 \/ house > 12 THEN 1 ELSE house

\* the loop body: the house one planet is appended to
WholeSignHouse(position, asc) ==
    LET asc_sign    == ((asc % Circle) \div (30 * Res)) + 1
        planet_sign == ((position % Circle) \div (30 * Res)) + 1
        house       == ((planet_sign - asc_sign + 12) % 12) + 1
    IN  IF house < 1 \/ house > 12 THEN 1 ELSE house

\* houses after the loop has handled the first n planets of the dict
RECURSIVE HousesAfter(_, _, _, _)
HousesAfter(pp, order, asc, n) ==
    IF n = 0 THEN ListOf([h \in 1..12 |-> << >>], 12)
    ELSE LET before == HousesAfter(pp, order, asc, n - 1)
             planet == order[n]
             house  == WholeSignHouse(pp[planet], asc)
         IN  [before EXCEPT ![house] = Append(@, planet)]

\* order: the planets of the dict in insertion order
assign_planets_to_houses(pp, order, asc) == HousesAfter(pp, order, asc, Len(order))

(***************************************************************************)
(* utils/strength_calculator.py : StrengthCalculator                       *)
(* Strength points are counted in hundredths of a point, speeds in         *)
(* hundredths of a degree per day, percentages in tenths of a percent.     *)
(* An entry of planets_info is a dict [kind |-> "dict", sign, house,       *)
(* speed, retrograde] or a bare longitude [kind |-> "float"].              *)
(***************************************************************************)
OWN_SIGNS ==
    [planet \in Planets |->
        CASE planet = "Sun"     -> <<5>>
          [] planet = "Moon"    -> <<4>>
          [] planet = "Mercury" -> <<3, 6>>
          [] planet = "Venus"   -> <<2, 7>>
          [] planet = "Mars"    -> <<1, 8>>
          [] planet = "Jupiter" -> <<9, 12>>
          [] planet = "Saturn"  -> <<10, 11>>
          [] planet = "Rahu"    -> <<11>>
          [] planet = "Ketu"    -> <<8>>]

DEBILITATED_SIGNS ==
    [planet \in Planets |->
        CASE planet = "Sun"     -> 7
          [] planet = "Moon"    -> 8
          [] planet = "Mercury" -> 12
          [] planet = "Venus"   -> 6
          [] planet = "Mars"    -> 4
          [] planet = "Jupiter" -> 10
          [] planet = "Saturn"  -> 1
          [] planet = "Rahu"    -> 9
          [] planet = "Ketu"    -> 3]

\* DIRECTIONAL_STRENGTH[planet]['quadrant']
DIRECTIONAL_STRENGTH ==
    [planet \in Planets |->
        CASE planet \in {"Sun", "Mercury", "Jupiter"} -> 1
          [] planet \in {"Mars", "Venus"}             -> 2
          [] planet \in {"Saturn", "Rahu", "Ketu"}    -> 3
          [] planet = "Moon"                          -> 4]

NATURAL_STRENGTH_RANKING ==
    [planet \in Planets |->
        CASE planet = "Sun"     -> 60
          [] planet = "Moon"    -> 51
          [] planet = "Venus"   -> 42
          [] planet = "Jupiter" -> 34
          [] planet = "Mercury" -> 25
          [] planet = "Mars"    -> 17
          [] planet = "Saturn"  -> 10
          [] planet = "Rahu"    -> 15
          [] planet = "Ketu"    -> 12]

\* a method of a float is looked up: .get raises AttributeError
RaisesAttributeError(info, planet) ==
    planet \in DOMAIN info /\ info[planet].kind = "float"

_calculate_sthana_bala(info, planet) ==
    IF planet \notin DOMAIN info THEN 0
    ELSE LET planet_sign == info[planet].sign
         IN  IF planet_sign = 5 /\ planet = "Sun" THEN 1500
             ELSE IF planet_sign = OWN_SIGNS[planet][1] THEN 1200
             ELSE IF planet_sign = DEBILITATED_SIGNS[planet] THEN 300
             ELSE 900

_calculate_dig_bala(info, planet) ==
    IF planet \notin DOMAIN info THEN 0
    ELSE LET house    == info[planet].house
             quadrant == DIRECTIONAL_STRENGTH[planet]
         IN  IF quadrant = 1 /\ house \in {1, 10} THEN 1500
             ELSE IF quadrant = 2 /\ house \in {4, 5} THEN 1500
             ELSE IF quadrant = 3 /\ house \in {7, 8} THEN 1500
             ELSE IF quadrant = 4 /\ house \in {10, 11} THEN 1500
             ELSE 800

_calculate_kala_bala(hour, planet) ==
    LET day_planets   == {"Sun", "Mars", "Jupiter"}
        night_planets == {"Moon", "Venus", "Saturn"}
        is_daytime    == 6 <= hour /\ hour <= 18
    IN  IF planet \in day_planets /\ is_daytime THEN 1200
        ELSE IF planet \in night_planets /\ ~is_daytime THEN 1200
        ELSE 800

_calculate_chesta_bala(info, planet) ==
    IF planet \notin DOMAIN info THEN 0
    ELSE LET speed         == info[planet].speed
             retrograde    == info[planet].retrograde
             base_strength == IF ~retrograde THEN 1000 ELSE 400
             adjusted      == IF speed > 100 THEN base_strength + 300
                              ELSE IF speed < 10 THEN base_strength - 200
                              ELSE base_strength
         IN  Min(adjusted, 1500)

\* round((natural_rank / 60) * 15, 2)
_calculate_naisargika_bala(info, planet) ==
    IF planet \notin DOMAIN info THEN 0
    ELSE RoundDiv(NATURAL_STRENGTH_RANKING[planet] * 15 * 100, 60)

benefic_planets == {"Sun", "Moon", "Jupiter", "Venus", "Mercury"}
malefic_planets == {"Mars", "Saturn", "Rahu", "Ketu"}

\* DrishtiBase taking the 7th-house aspect as a house difference of 7
DrishtiBaseSevenApart(info, planet) ==
    LET in_aspect(other_planet) ==
            /\ other_planet # planet
            /\ Abs(info[other_planet].house - info[planet].house) = 7
        benefics == {o \in DOMAIN info : in_aspect(o) /\ o \in benefic_planets}
        malefics == {o \in DOMAIN info : in_aspect(o) /\ o \in malefic_planets}
    IN  800 + 200 * Cardinality(benefics) - 200 * Cardinality(malefics)

\* base_strength after the loop: every benefic in aspect adds 2, every
\* malefic in aspect takes 2 away
DrishtiBase(info, planet) ==
    LET in_aspect(other_planet) ==
            /\ other_planet # planet
            /\ Abs(info[other_planet].house - info[planet].house) = 6
        benefics == {o \in DOMAIN info : in_aspect(o) /\ o \in benefic_planets}
        malefics == {o \in DOMAIN info : in_aspect(o) /\ o \in malefic_planets}
    IN  800 + 200 * Cardinality(benefics) - 200 * Cardinality(malefics)

_calculate_drishti_bala(info, planet) ==
    IF planet \notin DOMAIN info THEN 0
    ELSE Min(Max(DrishtiBase(info, planet), 0), 1500)

\* percentage >= 80 and so on, percentage = total / 60 * 100 unrounded
_get_strength_status(total_strength) ==
    IF total_strength >= 4800 THEN "Very Strong"
    ELSE IF total_strength >= 3600 THEN "Strong"
    ELSE IF total_strength >= 2400 THEN "Moderate"
    ELSE IF total_strength >= 1200 THEN "Weak"
    ELSE "Very Weak"

_assess_capacity(total_strength) ==
    IF total_strength >= 4800 THEN "Full capacity - Planet can give complete results"
    ELSE IF total_strength >= 3600 THEN "Good capacity - Planet can give favorable results"
    ELSE IF total_strength >= 2400 THEN "Moderate capacity - Planet gives mixed results"
    ELSE IF total_strength >= 1200 THEN "Limited capacity - Planet gives minimal results"
    ELSE "Very limited capacity - Planet struggles to give results"

\* totals at which (total / 60) * 100 falls just above or just below the
\* half-way point between two tenths in binary floating point
FloatJustAboveHalf == {3675, 6975}
FloatJustBelowHalf == {3825, 6525}

\* round((total_strength / 60) * 100, 1), in tenths of a percent
StrengthPercentage(total_strength) ==
    LET q   == total_strength \div 6
        rem == total_strength % 6
    IN  IF rem > 3 THEN q + 1
        ELSE IF rem < 3 THEN q
        ELSE IF total_strength \in FloatJustAboveHalf THEN q + 1
        ELSE IF total_strength \in FloatJustBelowHalf THEN q
        ELSE IF q % 2 = 1 THEN q + 1 ELSE q

calculate_planet_strength(info, hour, planet) ==
    IF RaisesAttributeError(info, planet)
    THEN [error |-> "'float' object has no attribute 'get'"]
    ELSE LET sthana     == _calculate_sthana_bala(info, planet)
             dig        == _calculate_dig_bala(info, planet)
             kala       == _calculate_kala_bala(hour, planet)
             chesta     == _calculate_chesta_bala(info, planet)
             naisargika == _calculate_naisargika_bala(info, planet)
             drishti    == _calculate_drishti_bala(info, planet)
             total_strength == sthana + dig + kala + chesta + naisargika + drishti
         IN  [planet              |-> planet,
              total_strength      |-> total_strength,
              strength_percentage |-> StrengthPercentage(total_strength),
              strength_status     |-> _get_strength_status(total_strength),
              breakdown           |-> [sthana_bala     |-> sthana,
                                       dig_bala        |-> dig,
                                       kala_bala       |-> kala,
                                       chesta_bala     |-> chesta,
                                       naisargika_bala |-> naisargika,
                                       drishti_bala    |-> drishti],
              is_strong           |-> total_strength >= 4200,
              capacity            |-> _assess_capacity(total_strength)]

\* n / d rounded to the nearest whole number, an exact half going to the
\* even neighbour (round() of a value that is exact in binary)
RoundHalfEvenDiv(n, d) ==
    LET q   == n \div d
        rem == n % d
    IN  IF 2 * rem > d THEN q + 1
        ELSE IF 2 * rem < d THEN q
        ELSE IF q % 2 = 1 THEN q + 1 ELSE q

RECURSIVE SumOfTotals(_, _)
SumOfTotals(planetary_strengths, keys) ==
    IF keys = << >> THEN 0
    ELSE LET data == planetary_strengths[Head(keys)]
         IN  (IF "total_strength" \in DOMAIN data THEN data.total_strength ELSE 0)
               + SumOfTotals(planetary_strengths, Tail(keys))

\* data.get('is_strong'): None for an error entry
IsStrongEntry(data) == "is_strong" \in DOMAIN data /\ data.is_strong

\* avg_strength is compared unrounded: strength_sum / planet_count >= 35 etc.
_assess_chart_quality(strong_count, strength_sum, planet_count) ==
    IF strong_count >= 5 /\ strength_sum >= 3500 * planet_count
        THEN "Excellent - Strong planetary support"
    ELSE IF strong_count >= 3 /\ strength_sum >= 3000 * planet_count
        THEN "Good - Decent planetary support"
    ELSE IF strong_count >= 2 /\ strength_sum >= 2500 * planet_count
        THEN "Average - Moderate planetary support"
    ELSE "Challenging - Limited planetary support"

\* each recommendation is <<sentence, planets named in it>>; the code joins
\* the names into the sentence with ', '
_get_strength_recommendations(planetary_strengths) ==
    LET keys           == KeysInOrder(planetary_strengths)
        strong         == {planet \in DOMAIN planetary_strengths :
                               IsStrongEntry(planetary_strengths[planet])}
        weak_planets   == SelectPlanets(keys, Len(keys), DOMAIN planetary_strengths \ strong)
        strong_planets == SelectPlanets(keys, Len(keys), strong)
    IN  (IF weak_planets # << >>
         THEN << <<"Weak planets: {}. Consider remedies (mantras, donations, gems) for these planets.",
                   weak_planets>> >>
         ELSE << >>)
        \o (IF strong_planets # << >>
            THEN << <<"Strong planets: {}. These planets can give excellent results in their periods.",
                      strong_planets>> >>
            ELSE << >>)
        \o << <<"Focus on strengthening weak planets through appropriate practices.", << >> >> >>

\* {} is << >>; strengths is whatever dict the caller passes
_calculate_overall_chart_strength(strengths) ==
    IF strengths = << >> \/ "planetary_strengths" \notin DOMAIN strengths
    THEN << >>
    ELSE LET planetary_strengths == strengths.planetary_strengths
             keys            == KeysInOrder(planetary_strengths)
             strong          == {planet \in DOMAIN planetary_strengths :
                                    IsStrongEntry(planetary_strengths[planet])}
             strong_planets  == SelectPlanets(keys, Len(keys), strong)
             total_strength  == SumOfTotals(planetary_strengths, keys)
         IN  [total_planetary_strength |-> total_strength,
              average_planet_strength  |->
                  IF keys # << >> THEN RoundHalfEvenDiv(total_strength, Len(keys)) ELSE 0,
              strong_planets_count     |-> Len(strong_planets),
              strong_planets           |-> strong_planets,
              chart_quality            |->
                  _assess_chart_quality(Len(strong_planets), total_strength, Len(keys)),
              recommendations          |-> _get_strength_recommendations(planetary_strengths)]

\* strengths[planet] for every key of planets_info
PlanetaryStrengths(info, hour) ==
    [planet \in DOMAIN info |-> calculate_planet_strength(info, hour, planet)]

calculate_all_strengths(info, hour) ==
    LET strengths        == PlanetaryStrengths(info, hour)
        overall_strength == _calculate_overall_chart_strength(strengths)
    IN  [planetary_strengths       |-> strengths,
         chart_strength_assessment |-> overall_strength]

(***************************************************************************)
(* services/transit_calculator.py : TransitCalculator                      *)
(* Degrees are counted in units of 1/Res degree.                           *)
(***************************************************************************)
\* aspect_orbs, in the order the dict is iterated
aspect_names == << "Conjunction", "Sextile", "Square", "Trine", "Opposition" >>

\* aspect_orbs with every orb widened to 15 degrees
AspectOrbsFifteen ==
    [aspect_name \in {aspect_names[i] : i \in 1..Len(aspect_names)} |-> 15]

aspect_orbs ==
    [aspect_name \in {aspect_names[i] : i \in 1..Len(aspect_names)} |->
        IF aspect_name = "Sextile" THEN 4 ELSE 6]

_get_aspect_angle(aspect_name) ==
    CASE aspect_name = "Conjunction" -> 0
      [] aspect_name = "Sextile"     -> 60
      [] aspect_name = "Square"      -> 90
      [] aspect_name = "Trine"       -> 120
      [] aspect_name = "Opposition"  -> 180
      [] OTHER                       -> 0

\* _calculate_angle without the fold: the plain difference of the degrees
TransitAngleUnfolded(degree1, degree2) == Abs(degree1 - degree2)

_calculate_angle(degree1, degree2) ==
    LET diff == Abs(degree1 - degree2)
    IN  IF diff > 180 * Res THEN Circle - diff ELSE diff

\* the aspects appended for one birth planet, after the first n aspect names
RECURSIVE AspectsOfBirthPlanet(_, _, _)
AspectsOfBirthPlanet(birth_planet, angle, n) ==
    IF n = 0 THEN << >>
    ELSE LET before       == AspectsOfBirthPlanet(birth_planet, angle, n - 1)
             aspect_name  == aspect_names[n]
             aspect_angle == _get_aspect_angle(aspect_name) * Res
             orb          == aspect_orbs[aspect_name] * Res
         IN  IF Abs(angle - aspect_angle) <= orb
             THEN Append(before,
                         [planet   |-> birth_planet,
                          aspect   |-> aspect_name,
                          angle    |-> angle,
                          orb      |-> Abs(angle - aspect_angle),
                          applying |-> angle < aspect_angle,
                          strength |-> IF Abs(angle - aspect_angle) < 2 * Res
                                       THEN "Strong" ELSE "Moderate"])
             ELSE before

\* aspects after the outer loop has handled the first n birth planets
RECURSIVE TransitAspectsAfter(_, _, _, _)
TransitAspectsAfter(birth, keys, current_degree, n) ==
    IF n = 0 THEN << >>
    ELSE LET before     == TransitAspectsAfter(birth, keys, current_degree, n - 1)
             birth_data == birth[keys[n]]
         IN  IF birth_data.kind = "dict"
             THEN before \o AspectsOfBirthPlanet(
                                keys[n], _calculate_angle(current_degree, birth_data.longitude),
                                Len(aspect_names))
             ELSE before

\* _calculate_transit_aspects(planet, current_degree); planet is not used
_calculate_transit_aspects(birth, planet, current_degree) ==
    LET keys == KeysInOrder(birth)
    IN  TransitAspectsAfter(birth, keys, current_degree, Len(keys))

\* TRANSIT_DURATIONS, in 1/100 day
TRANSIT_DURATIONS ==
    [planet \in Planets |->
        CASE planet = "Sun"     -> 3000
          [] planet = "Moon"    -> 225
          [] planet = "Mercury" -> 1400
          [] planet = "Venus"   -> 2800
          [] planet = "Mars"    -> 4500
          [] planet = "Jupiter" -> 36000
          [] planet = "Saturn"  -> 90000
          [] planet = "Rahu"    -> 54000
          [] planet = "Ketu"    -> 54000]

TRANSIT_SIGNIFICANCE ==
    [planet \in Planets |->
        CASE planet = "Sun"     -> "General life influence"
          [] planet = "Moon"    -> "Emotional and daily mood"
          [] planet = "Mercury" -> "Communication and thinking"
          [] planet = "Venus"   -> "Relationships and finances"
          [] planet = "Mars"    -> "Energy, courage, conflicts"
          [] planet = "Jupiter" -> "Expansion, luck, growth"
          [] planet = "Saturn"  -> "Restrictions, lessons, responsibilities"
          [] planet = "Rahu"    -> "Obsessions, new ventures, growth"
          [] planet = "Ketu"    -> "Release, spirituality, past karma"]

_determine_transit_quality(planet, current_sign, birth_sign) ==
    IF planet \in {"Sun", "Moon", "Jupiter", "Venus", "Mercury"} THEN "Benefic"
    ELSE IF planet \in {"Mars", "Saturn", "Rahu", "Ketu"} THEN "Malefic"
    ELSE "Neutral"

\* signs.index raising ValueError gives 0
_calculate_houses_apart(sign1, sign2) ==
    IF sign1 \in {SIGNS[i] : i \in 1..12} /\ sign2 \in {SIGNS[i] : i \in 1..12}
    THEN LET idx1 == CHOOSE i \in 0..11 : SIGNS[i + 1] = sign1
             idx2 == CHOOSE i \in 0..11 : SIGNS[i + 1] = sign2
             diff == Abs(idx1 - idx2)
         IN  Min(diff, 12 - diff)
    ELSE 0

\* the f-string of interpretations[planet], with its fields left in braces
TransitSentence(planet) ==
    CASE planet = "Sun" ->
            "{planet} transiting {current_sign} brings focus and vitality to areas ruled by {current_sign}"
      [] planet = "Moon" ->
            "{planet} in {current_sign} creates emotional tendencies and daily influences"
      [] planet = "Mercury" ->
            "{planet} in {current_sign} affects communication and intellectual matters"
      [] planet = "Venus" ->
            "{planet} in {current_sign} brings harmony or challenges in relationships and finance"
      [] planet = "Mars" ->
            "{planet} in {current_sign} energizes or creates conflicts in {current_sign} matters"
      [] planet = "Jupiter" ->
            "{planet} in {current_sign} expands opportunities and brings good fortune"
      [] planet = "Saturn" ->
            "{planet} in {current_sign} brings lessons, restrictions, and long-term growth"
      [] planet = "Rahu" ->
            "{planet} in {current_sign} indicates obsessions and new ventures"
      [] planet = "Ketu" ->
            "{planet} in {current_sign} brings spiritual lessons and release"
      [] OTHER -> "{planet} transiting {current_sign}"

\* the returned string is sentence (with planet and current_sign filled in)
\* followed by suffix; birth_sign "None" is None
_get_transit_interpretation(planet, current_sign, birth_sign) ==
    LET houses_apart == _calculate_houses_apart(current_sign, birth_sign)
        suffix ==
            IF bool(birth_sign) /\ current_sign = birth_sign
            THEN " (Same as birth sign - reinforcing birth chart influence)"
            ELSE IF bool(birth_sign)
            THEN IF houses_apart = 7
                 THEN " (Opposing birth position - significant impact)"
                 ELSE IF houses_apart = 4 \/ houses_apart = 8
                 THEN " (Square to birth position - challenging aspect)"
                 ELSE IF houses_apart = 5 \/ houses_apart = 9
                 THEN " (Trine to birth position - harmonious influence)"
                 ELSE ""
            ELSE ""
    IN  [sentence     |-> TransitSentence(planet),
         planet       |-> planet,
         current_sign |-> current_sign,
         suffix       |-> suffix]

\* calculate_planet_positions(jd) for the date transit_date + days: every
\* planet of the sky has moved by its step for each 30 days, and Ketu stands
\* opposite Rahu
PositionsOnDay(sky, days) ==
    LET computed == [planet \in DOMAIN sky |->
                        (sky[planet].start + (days \div 30) * sky[planet].step) % Circle]
    IN  IF "Rahu" \in DOMAIN computed
        THEN computed @@ ("Ketu" :> (computed["Rahu"] + 180 * Res) % Circle)
        ELSE computed

\* calculate_current_transits of a calculator whose transit_date is days
\* after that of the calculator at hand
calculate_current_transits(birth, sky, days) ==
    LET current_positions == PositionsOnDay(sky, days)
    IN  [planet \in DOMAIN current_positions \cap DOMAIN birth |->
            LET current_pos  == current_positions[planet]
                is_dict      == birth[planet].kind = "dict"
                birth_pos    == IF is_dict THEN birth[planet].longitude ELSE 0
                current_sign == get_zodiac_sign(current_pos)
                birth_sign   == IF is_dict THEN birth[planet].sign ELSE "None"
            IN  [planet                |-> planet,
                 current_degree        |-> current_pos,
                 current_sign          |-> current_sign,
                 birth_degree          |-> birth_pos,
                 birth_sign            |-> birth_sign,
                 sign_change           |-> IF bool(birth_sign)
                                           THEN current_sign # birth_sign ELSE FALSE,
                 significance          |-> TRANSIT_SIGNIFICANCE[planet],
                 duration_in_sign_days |-> TRANSIT_DURATIONS[planet],
                 aspects_to_birth      |-> _calculate_transit_aspects(birth, planet, current_pos),
                 transit_quality       |-> _determine_transit_quality(planet, current_sign, birth_sign),
                 interpretation        |-> _get_transit_interpretation(planet, current_sign, birth_sign)]]

\* the planets get_upcoming_important_transits looks at, in its order
UpcomingPlanets == << "Saturn", "Jupiter", "Rahu", "Ketu" >>

\* entries appended at offset i for the first n planets of UpcomingPlanets;
\* the date field is transit_date + i days and is left out
RECURSIVE UpcomingAtOffset(_, _, _, _)
UpcomingAtOffset(future_transits, current_transits, i, n) ==
    IF n = 0 THEN << >>
    ELSE LET before == UpcomingAtOffset(future_transits, current_transits, i, n - 1)
             planet == UpcomingPlanets[n]
         IN  IF /\ planet \in DOMAIN future_transits
                /\ planet \in DOMAIN current_transits
                /\ future_transits[planet].current_sign # current_transits[planet].current_sign
             THEN Append(before,
                         [planet       |-> planet,
                          new_sign     |-> future_transits[planet].current_sign,
                          old_sign     |-> current_transits[planet].current_sign,
                          significance |-> TRANSIT_SIGNIFICANCE[planet],
                          days_away    |-> i])
             ELSE before

\* upcoming after the first n offsets of range(0, days, 30)
RECURSIVE UpcomingAfter(_, _, _)
UpcomingAfter(birth, sky, n) ==
    IF n = 0 THEN << >>
    ELSE LET i == (n - 1) * 30
         IN  UpcomingAfter(birth, sky, n - 1)
                 \o UpcomingAtOffset(calculate_current_transits(birth, sky, i),
                                     calculate_current_transits(birth, sky, 0),
                                     i, Len(UpcomingPlanets))

\* sorted(upcoming, key = days_away): a stable sort
RECURSIVE SortByDaysAway(_)
SortByDaysAway(list) ==
    IF Len(list) <= 1 THEN list
    ELSE LET sorted == SortByDaysAway(SubSeq(list, 1, Len(list) - 1))
             last   == list[Len(list)]
             ahead  == {i \in 1..Len(sorted) : sorted[i].days_away <= last.days_away}
             k      == IF ahead = {} THEN 0 ELSE CHOOSE i \in ahead : \A j \in ahead : j <= i
         IN  SubSeq(sorted, 1, k) \o <<last>> \o SubSeq(sorted, k + 1, Len(sorted))

\* number of offsets in range(0, days, 30)
ScannedOffsets(days) == IF days <= 0 THEN 0 ELSE (days + 29) \div 30

\* future_date = self.transit_date + timedelta(days=i) raises OverflowError
\* at one of the scanned offsets: the day lies after 9999-12-31 (ordinal
\* 3652059)
FutureDateOverflow(date, days) ==
    \E n \in 1..ScannedOffsets(days) : toordinal(date) + (n - 1) * 30 > 3652059

\* the except branch returns [] in place of what the loop had collected
get_upcoming_important_transits(birth, sky, date, days) ==
    IF FutureDateOverflow(date, days)
    THEN << >>
    ELSE SortByDaysAway(UpcomingAfter(birth, sky, ScannedOffsets(days)))

(***************************************************************************)
(* Idle values of each component's variables, used by the specifications   *)
(* of the other components.                                                *)
(***************************************************************************)
PosIdle   == ephemeris = << >> /\ topocentric = FALSE /\ positions = << >> /\ pp_ret = NoCall
VargaIdle == varga_degree = 0 /\ varga_call = NoCall /\ varga_ret = << >> /\ varga_info = << >>
NakIdle   == longitude = 0 /\ nak_log = << >> /\ dnak_log = << >>
DashaIdle == moon_longitude = 0 /\ dasha_birth_date = << >> /\ dasha_call = NoCall /\ dasha_ret = << >>
AspIdle   == asp_info = << >> /\ asp_call = NoCall /\ asp_ret = << >>
HouseIdle == planet_positions = << >> /\ ascendant = 0 /\ houses = << >>
StrIdle   == str_info = << >> /\ birth_hour = 0 /\ str_call = NoCall /\ str_ret = << >>
TransitIdle ==
    /\ birth_planets = << >> /\ transit_call = NoCall /\ transit_ret = << >>
    /\ transit_date = << >> /\ transit_sky = << >>
KundaliIdle == kundali_call = NoCall /\ kundali_built = << >> /\ kundali_ret = << >>

IdleExceptNak   == DashaIdle /\ PosIdle /\ VargaIdle /\ AspIdle /\ HouseIdle /\ StrIdle /\ TransitIdle /\ KundaliIdle
IdleExceptDasha == NakIdle /\ PosIdle /\ VargaIdle /\ AspIdle /\ HouseIdle /\ StrIdle /\ TransitIdle /\ KundaliIdle
IdleExceptPos   == NakIdle /\ DashaIdle /\ VargaIdle /\ AspIdle /\ HouseIdle /\ StrIdle /\ TransitIdle /\ KundaliIdle
IdleExceptVarga == NakIdle /\ DashaIdle /\ PosIdle /\ AspIdle /\ HouseIdle /\ StrIdle /\ TransitIdle /\ KundaliIdle
IdleExceptAsp   == NakIdle /\ DashaIdle /\ PosIdle /\ VargaIdle /\ HouseIdle /\ StrIdle /\ TransitIdle /\ KundaliIdle
IdleExceptHouse == NakIdle /\ DashaIdle /\ PosIdle /\ VargaIdle /\ AspIdle /\ StrIdle /\ TransitIdle /\ KundaliIdle
IdleExceptStr   == NakIdle /\ DashaIdle /\ PosIdle /\ VargaIdle /\ AspIdle /\ HouseIdle /\ TransitIdle /\ KundaliIdle
IdleExceptTransit == NakIdle /\ DashaIdle /\ PosIdle /\ VargaIdle /\ AspIdle /\ HouseIdle /\ StrIdle /\ KundaliIdle
IdleExceptKundali == NakIdle /\ DashaIdle /\ PosIdle /\ VargaIdle /\ AspIdle /\ HouseIdle /\ StrIdle /\ TransitIdle

(***************************************************************************)
(* Nakshatra indexer: both indexers are called on longitude + 360k.        *)
(***************************************************************************)
InitNakshatra ==
    /\ longitude \in 0..(Circle - 1)
    /\ nak_log = << >>
    /\ dnak_log = << >>
    /\ IdleExceptNak

GetNakshatra(k) ==
    /\ k \notin DOMAIN nak_log
    /\ nak_log' = nak_log @@ (k :> get_nakshatra(longitude + k * Circle))
    /\ UNCHANGED <<longitude, dnak_log, exceptNak>>

GetNakshatraFromLongitude(k) ==
    /\ k \notin DOMAIN dnak_log
    /\ dnak_log' = dnak_log @@ (k :> get_nakshatra_from_longitude(longitude + k * Circle))
    /\ UNCHANGED <<longitude, nak_log, exceptNak>>

NextNakshatra ==
    \/ \E k \in Shifts : GetNakshatra(k)
    \/ \E k \in Shifts : GetNakshatraFromLongitude(k)

SpecNakshatra == InitNakshatra /\ [][NextNakshatra]_vars

(***************************************************************************)
(* DashaCalculator: one method call on a calculator built for a Moon       *)
(* longitude.                                                              *)
(***************************************************************************)
\* birth dates of the calculators: the first and the last day of datetime, a
\* day fewer years after the first than the longest dasha lasts, and one far
\* from both ends
DashaBirthDates == {"0001-01-01", "0015-06-01", "1990-05-17", "9999-12-31"}

InitDasha ==
    /\ moon_longitude \in (0 - MaxShift * Circle)..((MaxShift + 1) * Circle - 1)
    /\ dasha_birth_date \in {strptime_date(birthDate) : birthDate \in DashaBirthDates}
    /\ dasha_call = NoCall
    /\ dasha_ret = << >>
    /\ IdleExceptDasha

GetDashaLordFromNakshatra(n) ==
    /\ dasha_call = NoCall
    /\ dasha_call' = [op |-> "get_dasha_lord_from_nakshatra", nakshatra_num |-> n]
    /\ dasha_ret' = get_dasha_lord_from_nakshatra(n)
    /\ UNCHANGED <<moon_longitude, dasha_birth_date, exceptDasha>>

CalculateDashaBalance ==
    /\ dasha_call = NoCall
    /\ dasha_call' = [op |-> "calculate_dasha_balance"]
    /\ dasha_ret' = calculate_dasha_balance(moon_longitude)
    /\ UNCHANGED <<moon_longitude, dasha_birth_date, exceptDasha>>

CalculateMahaDashaTimeline ==
    /\ dasha_call = NoCall
    /\ dasha_call' = [op |-> "calculate_maha_dasha_timeline"]
    /\ \E short \in AgeRoundings(moon_longitude) :
           dasha_ret' = calculate_maha_dasha_timeline(moon_longitude, short)
    /\ UNCHANGED <<moon_longitude, dasha_birth_date, exceptDasha>>

CalculateAntarDasha(maha_dasha_lord) ==
    /\ dasha_call = NoCall
    /\ dasha_call' = [op |-> "calculate_antar_dasha", maha_dasha_lord |-> maha_dasha_lord]
    /\ dasha_ret' = calculate_antar_dasha(moon_longitude, maha_dasha_lord)
    /\ UNCHANGED <<moon_longitude, dasha_birth_date, exceptDasha>>

CalculateCompleteDashaInfo ==
    /\ dasha_call = NoCall
    /\ dasha_call' = [op |-> "calculate_complete_dasha_info"]
    /\ \E short \in AgeRoundings(moon_longitude) :
           dasha_ret' = calculate_complete_dasha_info(dasha_birth_date, moon_longitude, short)
    /\ UNCHANGED <<moon_longitude, dasha_birth_date, exceptDasha>>

DashaLords == {DASHA_ORDER[i] : i \in 1..9}

NextDasha ==
    \/ \E n \in 0..26 : GetDashaLordFromNakshatra(n)
    \/ CalculateDashaBalance
    \/ CalculateMahaDashaTimeline
    \/ \E lord \in DashaLords \cup {"None"} : CalculateAntarDasha(lord)
    \/ CalculateCompleteDashaInfo

SpecDasha == InitDasha /\ [][NextDasha]_vars

(***************************************************************************)
(* calculate_planet_positions: one call against an ephemeris.              *)
(***************************************************************************)
RahuStep == 15    \* Rahu's tropical longitude is tried every RahuStep degrees
AyanamsaDegrees == 24
SpeedSamples == {0 - 5, 0, 5}

\* tropical longitudes (degrees) of the planets other than Rahu
OtherLongitude(planet) ==
    CASE planet = "Sun"     -> 10
      [] planet = "Moon"    -> 95
      [] planet = "Mars"    -> 133
      [] planet = "Mercury" -> 359
      [] planet = "Jupiter" -> 201
      [] planet = "Venus"   -> 23
      [] planet = "Saturn"  -> 300
      [] OTHER              -> 0

EphemerisInputs ==
    { [ayanamsa |-> AyanamsaDegrees * Res,
       planets |->
         [planet \in {EphemerisPlanets[i] : i \in 1..Len(EphemerisPlanets)} |->
            IF planet = "Rahu"
            THEN [outcome |-> ro, tropical_longitude |-> rl * RahuStep * Res, speed |-> rs]
            ELSE [outcome |-> IF planet = "Moon" THEN mo ELSE oo,
                  tropical_longitude |-> OtherLongitude(planet) * Res,
                  speed |-> 5]]] :
        ro \in CalcOutcomes, rl \in 0..((360 \div RahuStep) - 1), rs \in SpeedSamples,
        mo \in {"ok", "raise_twice"}, oo \in {"ok", "raise_twice"} }

InitPositions ==
    /\ ephemeris \in EphemerisInputs
    /\ topocentric \in BOOLEAN
    /\ positions = << >>
    /\ pp_ret = NoCall
    /\ IdleExceptPos

CalculatePlanetPositions ==
    /\ pp_ret = NoCall
    /\ positions' = PositionsWithKetu(ephemeris, topocentric)
    /\ pp_ret' = calculate_planet_positions(ephemeris, topocentric)
    /\ UNCHANGED <<ephemeris, topocentric, exceptPos>>

NextPositions == CalculatePlanetPositions

SpecPositions == InitPositions /\ [][NextPositions]_vars

(***************************************************************************)
(* VargaCalculator: one transform of a longitude.                          *)
(***************************************************************************)
InitVarga ==
    /\ varga_degree \in (0 - MaxShift * Circle)..((MaxShift + 1) * Circle - 1)
    /\ varga_call = NoCall
    /\ varga_ret = << >>
    /\ varga_info = << >>
    /\ IdleExceptVarga

CalculateNavamsha ==
    /\ varga_call = NoCall
    /\ varga_call' = [op |-> "_calculate_navamsha"]
    /\ varga_ret' = _calculate_navamsha(varga_degree)
    /\ UNCHANGED <<varga_degree, varga_info, exceptVarga>>

GetNavamshaPada ==
    /\ varga_call.op = "_calculate_navamsha"
    /\ varga_call' = [op |-> "_get_navamsha_pada", navamsha_num |-> varga_ret.navamsha_number]
    /\ varga_ret' = _get_navamsha_pada(varga_ret.navamsha_number)
    /\ UNCHANGED <<varga_degree, varga_info, exceptVarga>>

\* the returned number is kept under the key the chart stores it at
CalculateSaptamshaNumber ==
    /\ varga_call = NoCall
    /\ varga_call' = [op |-> "_calculate_saptamsha_number"]
    /\ varga_ret' = [saptamsha_number |-> _calculate_saptamsha_number(varga_degree)]
    /\ UNCHANGED <<varga_degree, varga_info, exceptVarga>>

\* one pass of the planet loop of calculate_saptamsha_chart
CalculateSaptamshaPlacement ==
    /\ varga_call = NoCall
    /\ varga_call' = [op |-> "calculate_saptamsha_chart"]
    /\ varga_ret' = SaptamshaPlacement(varga_degree)
    /\ UNCHANGED <<varga_degree, varga_info, exceptVarga>>

NextVarga ==
    \/ CalculateNavamsha
    \/ GetNavamshaPada
    \/ CalculateSaptamshaNumber
    \/ CalculateSaptamshaPlacement

SpecVarga == InitVarga /\ [][NextVarga]_vars

(***************************************************************************)
(* VargaCalculator built for a chart: the first count planets of           *)
(* PlanetOrder, planet i in the i-th sign after a base sign.  The first    *)
(* aligned planets stand in the navamsha part that maps to their own sign, *)
(* the others 5 degrees into their sign; the sign of the last planet may   *)
(* be None or the empty string.                                            *)
(***************************************************************************)
\* a degree of the sign inside the navamsha part whose sign is the sign itself
VargottamaDegree(sign_num) ==
    CASE (4 * sign_num) % 12 = 0 -> 1
      [] (4 * sign_num) % 12 = 4 -> 14
      [] (4 * sign_num) % 12 = 8 -> 27

VargaChart(count, aligned, base, unsigned) ==
    [planet \in {PlanetOrder[i] : i \in 1..count} |->
        LET i        == CHOOSE j \in 1..count : PlanetOrder[j] = planet
            sign_num == (base + i) % 12
            offset   == IF i <= aligned THEN VargottamaDegree(sign_num) ELSE 5
        IN  [kind      |-> "dict",
             longitude |-> (sign_num * 30 + offset) * Res,
             sign      |-> IF unsigned # "signed" /\ i = count
                           THEN unsigned ELSE get_zodiac_sign((sign_num * 30 + offset) * Res)]]

InitVargaChart ==
    /\ varga_info \in { VargaChart(count, aligned, base, unsigned) :
                          count \in 0..Len(PlanetOrder), aligned \in 0..Len(PlanetOrder),
                          base \in 0..11, unsigned \in {"signed", "None", ""} }
                      \cup {LongitudeChart}
    /\ varga_degree = 0
    /\ varga_call = NoCall
    /\ varga_ret = << >>
    /\ IdleExceptVarga

CompareD1D9Alignment ==
    /\ varga_call = NoCall
    /\ varga_call' = [op |-> "compare_d1_d9_alignment"]
    /\ varga_ret' = compare_d1_d9_alignment(varga_info)
    /\ UNCHANGED <<varga_degree, varga_info, exceptVarga>>

NextVargaChart == CompareD1D9Alignment

SpecVargaChart == InitVargaChart /\ [][NextVargaChart]_vars

(***************************************************************************)
(* VedicAspectsCalculator: one method call on a calculator built for a     *)
(* chart.  The charts put planet i of PlanetOrder i*stride houses after a  *)
(* base house; Mars may be missing from the chart.                         *)
(***************************************************************************)
HouseStrides == {0, 1, 5}

AspectChart(base, stride, present) ==
    [planet \in present |->
        LET i == CHOOSE j \in 1..Len(PlanetOrder) : PlanetOrder[j] = planet
        IN  [house |-> ((base - 1 + i * stride) % 12) + 1]]

InitAspects ==
    /\ asp_info \in { AspectChart(base, stride, present) :
                        base \in 1..12, stride \in HouseStrides,
                        present \in {Planets, Planets \ {"Mars"}} }
    /\ asp_call = NoCall
    /\ asp_ret = << >>
    /\ IdleExceptAsp

GetStandardAspects(planet) ==
    /\ asp_call = NoCall
    /\ asp_call' = [op |-> "get_standard_aspects", planet |-> planet]
    /\ asp_ret' = get_standard_aspects(asp_info, planet)
    /\ UNCHANGED <<asp_info, exceptAsp>>

\* the rule applied again to a planet standing in the aspected house
GetStandardAspectsOfAspectedHouse ==
    /\ asp_call.op = "get_standard_aspects"
    /\ asp_call' = [op |-> "get_standard_aspects_twice", planet |-> asp_call.planet]
    /\ asp_ret' = get_standard_aspects(
                      [q \in {asp_call.planet} |-> [house |-> asp_ret[1]]], asp_call.planet)
    /\ UNCHANGED <<asp_info, exceptAsp>>

GetSpecialAspects(planet) ==
    /\ asp_call = NoCall
    /\ asp_call' = [op |-> "get_special_aspects", planet |-> planet]
    /\ asp_ret' = get_special_aspects(asp_info, planet)
    /\ UNCHANGED <<asp_info, exceptAsp>>

GetAllAspectsForPlanet(planet) ==
    /\ asp_call = NoCall
    /\ asp_call' = [op |-> "get_all_aspects_for_planet", planet |-> planet]
    /\ asp_ret' = get_all_aspects_for_planet(asp_info, planet)
    /\ UNCHANGED <<asp_info, exceptAsp>>

GetStrongestAspects ==
    /\ asp_call = NoCall
    /\ asp_call' = [op |-> "get_strongest_aspects"]
    /\ asp_ret' = get_strongest_aspects(asp_info)
    /\ UNCHANGED <<asp_info, exceptAsp>>

NextAspects ==
    \/ GetStrongestAspects
    \/ \E planet \in Planets : GetStandardAspects(planet)
    \/ GetStandardAspectsOfAspectedHouse
    \/ \E planet \in Planets : GetSpecialAspects(planet)
    \/ \E planet \in Planets : GetAllAspectsForPlanet(planet)

SpecAspects == InitAspects /\ [][NextAspects]_vars

(***************************************************************************)
(* assign_planets_to_houses: one call for the first MaxHousePlanets        *)
(* planets, each at the start or the end of a sign or just outside         *)
(* [0, 360).                                                               *)
(***************************************************************************)
MaxHousePlanets == 2

HouseLongitudes ==
    {s * 30 * Res : s \in 0..11} \cup {s * 30 * Res + 30 * Res - 1 : s \in 0..11}
        \cup {0 - 1, Circle}

HousePlanetOrder == SubSeq(PlanetOrder, 1, MaxHousePlanets)

InitHouses ==
    /\ planet_positions \in [{HousePlanetOrder[i] : i \in 1..MaxHousePlanets} -> HouseLongitudes]
    /\ ascendant \in HouseLongitudes
    /\ houses = << >>
    /\ IdleExceptHouse

AssignPlanetsToHouses ==
    /\ houses = << >>
    /\ houses' = assign_planets_to_houses(planet_positions, HousePlanetOrder, ascendant)
    /\ UNCHANGED <<planet_positions, ascendant, exceptHouse>>

NextHouses == AssignPlanetsToHouses

SpecHouses == InitHouses /\ [][NextHouses]_vars

(***************************************************************************)
(* StrengthCalculator: one calculate_planet_strength call on a calculator  *)
(* built for a chart.  In a chart every planet has the same sign, speed    *)
(* and retrograde flag; the planets of one group stand in one house and    *)
(* the rest in the house opposite.  One chart holds bare longitudes.       *)
(***************************************************************************)
StrengthSpeeds == {0 - 150, 0 - 50, 5, 50, 150}
BirthHours     == {5, 6, 18, 19}

\* <<planets in the chart, planets in the opposite house>>
HouseGroupings ==
    { <<Planets, {}>>,
      <<Planets, benefic_planets>>,
      <<Planets, {"Sun"}>>,
      <<Planets, {"Moon", "Mars"}>>,
      <<Planets \ {"Ketu"}, {"Saturn", "Jupiter"}>> }

OppositeHouse(house) == IF house <= 6 THEN house + 6 ELSE house - 6

StrengthChart(sign, house, speed, retrograde, grouping) ==
    [planet \in grouping[1] |->
        [kind       |-> "dict",
         sign       |-> sign,
         house      |-> IF planet \in grouping[2] THEN OppositeHouse(house) ELSE house,
         speed      |-> speed,
         retrograde |-> retrograde]]

InitStrength ==
    /\ str_info \in { StrengthChart(sign, house, speed, retrograde, grouping) :
                        sign \in 1..12, house \in 1..12, speed \in StrengthSpeeds,
                        retrograde \in BOOLEAN, grouping \in HouseGroupings }
                    \cup {LongitudeChart}
    /\ birth_hour \in BirthHours
    /\ str_call = NoCall
    /\ str_ret = << >>
    /\ IdleExceptStr

CalculatePlanetStrength(planet) ==
    /\ str_call = NoCall
    /\ str_call' = [op |-> "calculate_planet_strength", planet |-> planet]
    /\ str_ret' = calculate_planet_strength(str_info, birth_hour, planet)
    /\ UNCHANGED <<str_info, birth_hour, exceptStr>>

CalculateAllStrengths ==
    /\ str_call = NoCall
    /\ str_call' = [op |-> "calculate_all_strengths"]
    /\ str_ret' = calculate_all_strengths(str_info, birth_hour)
    /\ UNCHANGED <<str_info, birth_hour, exceptStr>>

\* the helper called on the whole result of the per-planet loop, the dict
\* its body reads strengths['planetary_strengths'] from
CalculateOverallChartStrength ==
    /\ str_call = NoCall
    /\ str_call' = [op |-> "_calculate_overall_chart_strength"]
    /\ str_ret' = _calculate_overall_chart_strength(
                      [planetary_strengths |-> PlanetaryStrengths(str_info, birth_hour)])
    /\ UNCHANGED <<str_info, birth_hour, exceptStr>>

NextStrength ==
    \/ \E planet \in Planets : CalculatePlanetStrength(planet)
    \/ CalculateAllStrengths
    \/ CalculateOverallChartStrength

SpecStrength == InitStrength /\ [][NextStrength]_vars

(***************************************************************************)
(* TransitCalculator: one helper call on a calculator built for a birth    *)
(* chart with the Sun and the Moon a quarter circle apart and a bare       *)
(* longitude for Mars.                                                     *)
(***************************************************************************)
TransitBirthLongitudes == {0, 100 * Res + 1, Circle - 1}

TransitBirthChart(sun_longitude) ==
    [planet \in {"Sun", "Moon", "Mars"} |->
        CASE planet = "Sun"  -> [kind |-> "dict", longitude |-> sun_longitude,
                                 sign |-> get_zodiac_sign(sun_longitude)]
          [] planet = "Moon" -> [kind |-> "dict",
                                 longitude |-> (sun_longitude + 90 * Res) % Circle,
                                 sign |-> get_zodiac_sign((sun_longitude + 90 * Res) % Circle)]
          [] planet = "Mars" -> [kind |-> "float"]]

InitTransit ==
    /\ birth_planets \in {TransitBirthChart(b) : b \in TransitBirthLongitudes}
    /\ transit_call = NoCall
    /\ transit_ret = << >>
    /\ transit_date = strptime_date("2024-01-01")
    /\ transit_sky = << >>
    /\ IdleExceptTransit

CalculateTransitAspects(planet, current_degree) ==
    /\ transit_call = NoCall
    /\ transit_call' = [op |-> "_calculate_transit_aspects", planet |-> planet,
                        current_degree |-> current_degree]
    /\ transit_ret' = _calculate_transit_aspects(birth_planets, planet, current_degree)
    /\ UNCHANGED <<birth_planets, transit_date, transit_sky, exceptTransit>>

\* the returned number is kept under the name the caller gives it
CalculateHousesApart(sign1, sign2) ==
    /\ transit_call = NoCall
    /\ transit_call' = [op |-> "_calculate_houses_apart", sign1 |-> sign1, sign2 |-> sign2]
    /\ transit_ret' = [houses_apart |-> _calculate_houses_apart(sign1, sign2)]
    /\ UNCHANGED <<birth_planets, transit_date, transit_sky, exceptTransit>>

GetTransitInterpretation(planet, current_sign, birth_sign) ==
    /\ transit_call = NoCall
    /\ transit_call' = [op |-> "_get_transit_interpretation", planet |-> planet,
                        current_sign |-> current_sign, birth_sign |-> birth_sign]
    /\ transit_ret' = _get_transit_interpretation(planet, current_sign, birth_sign)
    /\ UNCHANGED <<birth_planets, transit_date, transit_sky, exceptTransit>>

SignNames == {SIGNS[i] : i \in 1..12}

NextTransit ==
    \/ \E sign1 \in SignNames \cup {"None", ""}, sign2 \in SignNames :
          CalculateHousesApart(sign1, sign2)
    \/ \E planet \in Planets \cup {"Uranus"}, current_sign \in SignNames,
          birth_sign \in SignNames \cup {"None", ""} :
          GetTransitInterpretation(planet, current_sign, birth_sign)
    \/ \E planet \in {"Sun", "Saturn"}, current_degree \in 0..(Circle - 1) :
          CalculateTransitAspects(planet, current_degree)

SpecTransit == InitTransit /\ [][NextTransit]_vars

(***************************************************************************)
(* TransitCalculator.get_upcoming_important_transits: one call on a        *)
(* calculator whose birth chart holds the slow planets, under a sky in     *)
(* which Saturn advances 1 degree, Jupiter 3 degrees and Rahu recedes      *)
(* 2 degrees every 30 days.                                                *)
(***************************************************************************)
MaxUpcomingDays == 365

UpcomingHorizons == {0, 1, 30, 31, 90, MaxUpcomingDays}

\* transit dates: an ordinary day, and two days less than a year before the
\* last day of datetime
UpcomingTransitDates == {"2024-01-01", "9999-06-01", "9999-12-31"}

UpcomingSky(saturn, jupiter, rahu) ==
    [planet \in {"Sun", "Jupiter", "Saturn", "Rahu"} |->
        CASE planet = "Sun"     -> [start |-> 10 * Res, step |-> 30 * Res]
          [] planet = "Jupiter" -> [start |-> jupiter,  step |-> 3 * Res]
          [] planet = "Saturn"  -> [start |-> saturn,   step |-> Res]
          [] planet = "Rahu"    -> [start |-> rahu,     step |-> 0 - 2 * Res]]

UpcomingBirthChart(present) ==
    [planet \in present |->
        LET i == CHOOSE j \in 1..Len(PlanetOrder) : PlanetOrder[j] = planet
        IN  [kind |-> "dict", longitude |-> (i * 40 * Res) % Circle,
             sign |-> get_zodiac_sign((i * 40 * Res) % Circle)]]

InitUpcoming ==
    /\ birth_planets \in {UpcomingBirthChart(present) :
                             present \in {{"Sun", "Jupiter", "Saturn", "Rahu", "Ketu"},
                                          {"Sun", "Jupiter", "Saturn", "Rahu"}}}
    /\ transit_date \in {strptime_date(date) : date \in UpcomingTransitDates}
    /\ transit_sky \in {UpcomingSky(saturn, jupiter, rahu) :
                           saturn  \in {29 * Res, 30 * Res - 1, 45 * Res},
                           jupiter \in {29 * Res, 40 * Res, 62 * Res},
                           rahu    \in {Res, 61 * Res, 75 * Res}}
    /\ transit_call = NoCall
    /\ transit_ret = << >>
    /\ IdleExceptTransit

GetUpcomingImportantTransits(days) ==
    /\ transit_call = NoCall
    /\ transit_call' = [op |-> "get_upcoming_important_transits", days |-> days]
    /\ transit_ret' = get_upcoming_important_transits(birth_planets, transit_sky,
                                                       transit_date, days)
    /\ UNCHANGED <<birth_planets, transit_date, transit_sky, exceptTransit>>

NextUpcoming == \E days \in UpcomingHorizons : GetUpcomingImportantTransits(days)

SpecUpcoming == InitUpcoming /\ [][NextUpcoming]_vars

(***************************************************************************)
(* Properties.                                                             *)
(***************************************************************************)
CanonicalOrder ==
    << "Ketu", "Venus", "Sun", "Moon", "Mars", "Rahu", "Jupiter", "Saturn", "Mercury" >>

\* lord of each of the 27 segments: one lord per triple of segments
SegmentLord ==
    << "Ketu", "Ketu", "Ketu", "Venus", "Venus", "Venus", "Sun", "Sun", "Sun",
       "Moon", "Moon", "Moon", "Mars", "Mars", "Mars", "Rahu", "Rahu", "Rahu",
       "Jupiter", "Jupiter", "Jupiter", "Saturn", "Saturn", "Saturn",
       "Mercury", "Mercury", "Mercury" >>

\* segment of a longitude, 0..26: floor of (longitude mod 360) / (360/27)
SegmentOf(lon) == (27 * (lon % Circle)) \div Circle

SumOfDurations(timeline) ==
    LET S[i \in 0..Len(timeline)] ==
            IF i = 0 THEN 0 ELSE S[i - 1] + timeline[i].duration
    IN  S[Len(timeline)]

SumOfAntarYears(list) ==
    LET S[i \in 0..Len(list)] ==
            IF i = 0 THEN 0 ELSE S[i - 1] + list[i].duration_years
    IN  S[Len(list)]

\* the maha dasha lord an antar dasha call works for
AntarMahaLord ==
    IF dasha_call.maha_dasha_lord = "None"
    THEN SegmentLord[SegmentOf(moon_longitude) + 1]
    ELSE dasha_call.maha_dasha_lord

\* C2: for any Moon longitude the maha dasha timeline has exactly 9 periods,
\* their durations sum to exactly 120 years, and the planets are the canonical
\* sequence rotated to start at the lord of the Moon's nakshatra.
C2_TimelineIs120YearRotation ==
    dasha_call.op = "calculate_maha_dasha_timeline" =>
        /\ Len(dasha_ret) = 9
        /\ SumOfDurations(dasha_ret) = 120
        /\ dasha_ret[1].planet = SegmentLord[SegmentOf(moon_longitude) + 1]
        /\ \E s \in 0..8 :
              \A i \in 1..9 : dasha_ret[i].planet = CanonicalOrder[((s + i - 1) % 9) + 1]

\* C2 witness: a timeline for a Moon in Saturn's nakshatras running Saturn,
\* Mercury, Ketu, ... and ending with Jupiter.
C2_Witness ==
    /\ dasha_call.op = "calculate_maha_dasha_timeline"
    /\ dasha_ret[1].planet = "Saturn"
    /\ dasha_ret[2].planet = "Mercury"
    /\ dasha_ret[3].planet = "Ketu"
    /\ dasha_ret[9].planet = "Jupiter"

\* C3 as stated: every antar dasha duration_years equals D * duration(body) / 120
\* exactly and the nine values sum to D (durations counted in 1/100 year).
C3_AntarExactlyProportional ==
    dasha_call.op = "calculate_antar_dasha" =>
        LET D == DASHA_DURATIONS[AntarMahaLord]
        IN  /\ \A i \in 1..9 :
                  dasha_ret[i].duration_years * 120
                      = D * DASHA_DURATIONS[dasha_ret[i].planet] * 100
            /\ SumOfAntarYears(dasha_ret) = D * 100

\* C3 amended: every antar dasha duration_years is D * duration(body) / 120
\* rounded to two decimals (within 0.005 year of the quotient), listed in the
\* canonical order, and the nine rounded values sum to D within 0.01 year.
C3_AntarProportionalRounded ==
    dasha_call.op = "calculate_antar_dasha" =>
        LET D == DASHA_DURATIONS[AntarMahaLord]
        IN  /\ Len(dasha_ret) = 9
            /\ \A i \in 1..9 :
                  /\ dasha_ret[i].planet = CanonicalOrder[i]
                  /\ Abs(dasha_ret[i].duration_years * 120
                           - D * DASHA_DURATIONS[dasha_ret[i].planet] * 100) <= 60
            /\ Abs(SumOfAntarYears(dasha_ret) - D * 100) <= 1

\* C3 witness: the sub-periods of Venus (20 years); Venus-Ketu is 7/6 year,
\* reported as 1.17, and the rounded values add up to 20.01.
C3_Witness ==
    /\ dasha_call.op = "calculate_antar_dasha"
    /\ dasha_call.maha_dasha_lord = "Venus"
    /\ dasha_ret[1].duration_years = 117
    /\ SumOfAntarYears(dasha_ret) = 2001

\* C4: nakshatra indexing is periodic: the results for L + 360k agree for all
\* k, for get_nakshatra (segment and pada) and for
\* get_nakshatra_from_longitude (segment); segments lie in 0..26, padas in 1..4.
C4_NakshatraPeriodic ==
    /\ \A k \in DOMAIN nak_log :
          /\ nak_log[k].index \in 0..26
          /\ nak_log[k].pada \in 1..4
          /\ \A j \in DOMAIN nak_log : nak_log[j] = nak_log[k]
    /\ \A k \in DOMAIN dnak_log :
          /\ dnak_log[k].num \in 0..26
          /\ \A j \in DOMAIN dnak_log : dnak_log[j] = dnak_log[k]

\* C4 witness: both indexers have been called for every shift of a longitude
\* in the last pada of the last segment.
C4_Witness ==
    /\ DOMAIN nak_log = Shifts
    /\ DOMAIN dnak_log = Shifts
    /\ nak_log[0].index = 26
    /\ nak_log[MaxShift].pada = 4
    /\ dnak_log[0 - MaxShift].num = 26

\* C10: for every segment s in 0..26 the dasha lord is
\* canonical_order[(s // 3) % 9], one lord per triple of segments, and the
\* starting lord of a Moon longitude is the lord of the triple containing the
\* Moon's segment.
C10_LordOfSegmentTriple ==
    /\ dasha_call.op = "get_dasha_lord_from_nakshatra" =>
          /\ dasha_ret = SegmentLord[dasha_call.nakshatra_num + 1]
          /\ dasha_ret = CanonicalOrder[((dasha_call.nakshatra_num \div 3) % 9) + 1]
    /\ dasha_call.op = "calculate_dasha_balance" =>
          dasha_ret.lord = SegmentLord[SegmentOf(moon_longitude) + 1]

\* C10 witness: segment 26 (the last of the triple 24..26) is given Mercury.
C10_Witness ==
    /\ dasha_call.op = "get_dasha_lord_from_nakshatra"
    /\ dasha_call.nakshatra_num = 26
    /\ dasha_ret = "Mercury"

\* C5: whenever Rahu is computed, Ketu's longitude is (Rahu + 180) mod 360 and
\* Ketu's retrograde flag is the negation of Rahu's, for every Rahu speed,
\* the fallback path that records speed 0 included.
C5_KetuOppositeOfRahu ==
    "Rahu" \in DOMAIN positions =>
        /\ "Ketu" \in DOMAIN positions
        /\ positions["Ketu"].longitude = (positions["Rahu"].longitude + 180 * Res) % Circle
        /\ positions["Ketu"].is_retrograde = ~positions["Rahu"].is_retrograde

\* index (0..107) of the 30/9-degree part of the zodiac holding a longitude
NavamshaPartOf(degree) == (108 * (degree % Circle)) \div Circle

\* the first grid longitude inside part k
NavamshaPartStart(k) == (k * Circle + 107) \div 108

\* index (0..11) of a sign name
SignIndex(name) == CHOOSE i \in 0..11 : SIGNS[i + 1] = name

\* C6: _calculate_navamsha gives part k (k = sign_index*9 + part_in_sign) of
\* the 108 navamsha parts the sign k mod 12, so over the sweep from 0 degrees
\* the D9 sign advances by one sign per part and each sign occurs 9 times.
C6_NavamshaSignCycles ==
    varga_call.op = "_calculate_navamsha" =>
        LET k == NavamshaPartOf(varga_degree)
            SweepSign(j) == _calculate_navamsha(NavamshaPartStart(j)).navamsha_sign
        IN  /\ varga_ret.navamsha_sign = SIGNS[(k % 12) + 1]
            /\ varga_ret.navamsha_number = k % 9
            /\ SweepSign(k) = varga_ret.navamsha_sign
            /\ SignIndex(SweepSign((k + 1) % 108)) = (SignIndex(SweepSign(k)) + 1) % 12
            /\ Cardinality({j \in 0..107 : SweepSign(j) = varga_ret.navamsha_sign}) = 9

\* C6 witness: 15 degrees of Taurus is part 13 (Taurus is sign 1, fifth
\* navamsha) and gets the sign 13 mod 12 = Taurus.
C6_Witness ==
    /\ varga_call.op = "_calculate_navamsha"
    /\ varga_degree = 45 * Res
    /\ varga_ret.navamsha_number = 4
    /\ varga_ret.navamsha_sign = "Taurus"

(***************************************************************************)
(* Standard and special aspects                                            *)
(***************************************************************************)
AspPlanetHouse == asp_info[asp_call.planet].house

\* C7: for a planet of the chart in house H, get_standard_aspects returns
\* exactly one house, that house lies in 1..12 and is ((H-1+6) mod 12)+1,
\* and the rule applied to the returned house gives H back (so 1 gives 7,
\* 7 gives 1 and 10 gives 4).
C7_StandardAspectIsSeventhHouse ==
    /\ (asp_call.op = "get_standard_aspects" /\ asp_call.planet \in DOMAIN asp_info) =>
          /\ Len(asp_ret) = 1
          /\ asp_ret[1] \in 1..12
          /\ asp_ret[1] = ((AspPlanetHouse - 1 + 6) % 12) + 1
          /\ AspPlanetHouse = 1 => asp_ret[1] = 7
          /\ AspPlanetHouse = 7 => asp_ret[1] = 1
          /\ AspPlanetHouse = 10 => asp_ret[1] = 4
    /\ (asp_call.op = "get_standard_aspects_twice" /\ asp_call.planet \in DOMAIN asp_info) =>
          asp_ret = <<AspPlanetHouse>>

\* a planet in house 10 has had the rule applied twice and is back at 10
C7_Witness ==
    /\ asp_call.op = "get_standard_aspects_twice"
    /\ asp_call.planet \in DOMAIN asp_info
    /\ AspPlanetHouse = 10
    /\ asp_ret = <<10>>

\* the offsets the special-aspect rule is stated with
StatedSpecialOffsets(planet) ==
    CASE planet = "Mars"    -> {3, 7}
      [] planet = "Jupiter" -> {4, 8}
      [] planet = "Saturn"  -> {2, 9}
      [] OTHER              -> {}

HouseAtOffset(house, offset) == ((house - 1 + offset) % 12) + 1

ElementsOf(seq) == {seq[i] : i \in 1..Len(seq)}

\* C9: for a planet of the chart in house H, the houses returned by
\* get_special_aspects are the houses at offsets +3 and +7 (Mars), +4 and
\* +8 (Jupiter), +2 and +9 (Saturn) from H, with at most the standard
\* 7th-house aspect (offset +6) besides them; every other planet gets an
\* empty list.
C9_SpecialAspectsAtStatedOffsets ==
    (asp_call.op = "get_special_aspects" /\ asp_call.planet \in DOMAIN asp_info) =>
        LET stated == {HouseAtOffset(AspPlanetHouse, o) :
                          o \in StatedSpecialOffsets(asp_call.planet)}
        IN  IF asp_call.planet \in {"Mars", "Jupiter", "Saturn"}
            THEN /\ stated \subseteq ElementsOf(asp_ret)
                 /\ ElementsOf(asp_ret) \subseteq
                        stated \cup {HouseAtOffset(AspPlanetHouse, 6)}
            ELSE asp_ret = << >>

(***************************************************************************)
(* House assignment                                                        *)
(***************************************************************************)
\* number of times a planet is listed in a house
Occurrences(list, planet) == Cardinality({i \in 1..Len(list) : list[i] = planet})

SignOfLongitude(lon) == (lon % Circle) \div (30 * Res)

\* C8: after assign_planets_to_houses every input planet is listed once in
\* exactly one of the 12 houses, that house is
\* ((planet_sign - ascendant_sign) mod 12) + 1 with
\* sign = floor((longitude mod 360) / 30), and the houses hold nothing else.
C8_EveryPlanetInExactlyOneHouse ==
    houses # << >> =>
        /\ DOMAIN houses = 1..12
        /\ \A planet \in DOMAIN planet_positions :
              LET expected == ((SignOfLongitude(planet_positions[planet])
                                  - SignOfLongitude(ascendant)) % 12) + 1
              IN  \A h \in 1..12 :
                     Occurrences(houses[h], planet) = IF h = expected THEN 1 ELSE 0
        /\ \A h \in 1..12 : ElementsOf(houses[h]) \subseteq DOMAIN planet_positions

\* ascendant in Aries, Sun in Libra: the Sun is in house 7, some house is
\* empty
C8_Witness ==
    /\ houses # << >>
    /\ SignOfLongitude(ascendant) = 0
    /\ SignOfLongitude(planet_positions["Sun"]) = 6
    /\ Occurrences(houses[7], "Sun") = 1
    /\ \E h \in 1..12 : houses[h] = << >>

(***************************************************************************)
(* Planetary strength                                                      *)
(***************************************************************************)
StrengthReturned ==
    /\ str_call.op = "calculate_planet_strength"
    /\ "error" \notin DOMAIN str_ret

\* C1: calculate_planet_strength yields six sub-scores each in [0,15], a
\* total_strength that is their sum and lies in [0,60], and a
\* strength_percentage equal to total/60*100 (to the one decimal the
\* result carries), hence in [0,100].
C1_StrengthWithinBounds ==
    StrengthReturned =>
        LET b == str_ret.breakdown
        IN  /\ \A k \in DOMAIN b : 0 <= b[k] /\ b[k] <= 1500
            /\ str_ret.total_strength =
                   b.sthana_bala + b.dig_bala + b.kala_bala + b.chesta_bala
                     + b.naisargika_bala + b.drishti_bala
            /\ 0 <= str_ret.total_strength /\ str_ret.total_strength <= 6000
            /\ Abs(6 * str_ret.strength_percentage - str_ret.total_strength) <= 3
            /\ 0 <= str_ret.strength_percentage /\ str_ret.strength_percentage <= 1000

(***************************************************************************)
(* Maha dasha timeline offsets                                             *)
(***************************************************************************)
\* years of the starting dasha elapsed before birth, in 1/Circle year
ElapsedBeforeBirth ==
    LET bal == calculate_dasha_balance(moon_longitude)
    IN  DASHA_DURATIONS[bal.lord] * Circle - bal.remaining_years

\* C11: in the maha dasha timeline the first start_year is the negative of
\* the years of the starting dasha elapsed before birth, and every period
\* i+1 starts exactly where period i ends (no gap, no overlap).
C11_TimelineOffsetsCumulative ==
    dasha_call.op = "calculate_maha_dasha_timeline" =>
        /\ dasha_ret[1].start_year * Circle = 0 - ElapsedBeforeBirth
        /\ \A i \in 1..8 : dasha_ret[i + 1].start_year = dasha_ret[i].end_year

(***************************************************************************)
(* The six strength measures                                               *)
(***************************************************************************)
\* a strength profile was returned for a planet of a chart of dicts
StrengthOfChartPlanet ==
    /\ StrengthReturned
    /\ str_call.planet \in DOMAIN str_info

StrPlanetInfo == str_info[str_call.planet]

\* C12: the positional (Sthana) score is 15 when the planet occupies any
\* sign of its own-sign set in OWN_SIGNS, 3 when it occupies its
\* debilitated sign, and 9 otherwise.
C12_SthanaFromOwnAndDebilitatedSigns ==
    StrengthOfChartPlanet =>
        str_ret.breakdown.sthana_bala =
            IF StrPlanetInfo.sign \in ElementsOf(OWN_SIGNS[str_call.planet]) THEN 1500
            ELSE IF StrPlanetInfo.sign = DEBILITATED_SIGNS[str_call.planet] THEN 300
            ELSE 900

\* C13: the temporal (Kala) score is 12 for Sun, Mars and Jupiter exactly
\* when 6 <= h < 18, 12 for Moon, Venus and Saturn exactly when h < 6 or
\* h >= 18, and 8 in every other case.
C13_KalaDayIsSixToEighteenExclusive ==
    StrengthReturned =>
        LET in_day == 6 <= birth_hour /\ birth_hour < 18
        IN  str_ret.breakdown.kala_bala =
                IF str_call.planet \in {"Sun", "Mars", "Jupiter"} /\ in_day THEN 1200
                ELSE IF str_call.planet \in {"Moon", "Venus", "Saturn"} /\ ~in_day THEN 1200
                ELSE 800

\* C14: the motional (Chesta) score is 10 for a direct planet and 4 for a
\* retrograde one, plus 3 when the absolute daily motion exceeds 1 degree
\* per day, minus 2 when it is below 0.1 degree per day, clamped to [0,15];
\* a retrograde planet moving at -1.5 degrees per day gets the +3.
C14_ChestaUsesAbsoluteMotion ==
    StrengthOfChartPlanet =>
        LET base   == IF StrPlanetInfo.retrograde THEN 400 ELSE 1000
            motion == Abs(StrPlanetInfo.speed)
            score  == IF motion > 100 THEN base + 300
                      ELSE IF motion < 10 THEN base - 200
                      ELSE base
        IN  str_ret.breakdown.chesta_bala = Min(Max(score, 0), 1500)

\* the other planets of the chart standing 6 houses away, around the circle
\* of 12 houses, from the planet whose strength was asked
PlanetsInOpposition ==
    {other \in DOMAIN str_info \ {str_call.planet} :
        (str_info[other].house - StrPlanetInfo.house) % 12 = 6}

\* C15: the aspectual (Drishti) score of a planet is 8, plus 2 for every
\* other benefic planet in the house exactly 6 houses away, minus 2 for
\* every other malefic planet there, clamped to [0,15]; planets elsewhere
\* and the planet itself contribute nothing.
C15_DrishtiCountsOppositions ==
    StrengthOfChartPlanet =>
        str_ret.breakdown.drishti_bala =
            Min(Max(800 + 200 * Cardinality(PlanetsInOpposition \cap benefic_planets)
                        - 200 * Cardinality(PlanetsInOpposition \cap malefic_planets),
                    0), 1500)

\* Mars with all five benefics opposite is clamped to 15
C15_Witness ==
    /\ StrengthOfChartPlanet
    /\ str_call.planet = "Mars"
    /\ PlanetsInOpposition = benefic_planets
    /\ str_ret.breakdown.drishti_bala = 1500

\* C16: for a non-empty chart the chart_strength_assessment returned by
\* calculate_all_strengths reports strong_planets_count equal to the number
\* of planets with strength_percentage >= 70, together with the mean
\* strength and a chart-quality label.
C16_AssessmentCountsStrongPlanets ==
    (str_call.op = "calculate_all_strengths" /\ DOMAIN str_info # {}) =>
        LET assessment == str_ret.chart_strength_assessment
            strengths  == str_ret.planetary_strengths
        IN  /\ DOMAIN assessment =
                   {"total_planetary_strength", "average_planet_strength",
                    "strong_planets_count", "strong_planets", "chart_quality",
                    "recommendations"}
            /\ assessment.strong_planets_count =
                   Cardinality({planet \in DOMAIN strengths :
                                   /\ "total_strength" \in DOMAIN strengths[planet]
                                   /\ strengths[planet].total_strength >= 4200})

(***************************************************************************)
(* Saptamsha (D7)                                                          *)
(***************************************************************************)
\* index of the 30/7-degree part of its sign that a longitude falls into
SaptamshaPartInSign(degree) == ((degree % (30 * Res)) * 7) \div (30 * Res)

\* C17: the D7 saptamsha_number of a longitude is the index (0..6) of the
\* 30/7-degree part the planet occupies within its own sign,
\* floor((longitude mod 30) / (30/7)), and that index selects the
\* interpretation string (so longitudes with the same offset inside their
\* signs get the same number).
C17_SaptamshaNumberIsPartOfSign ==
    /\ varga_call.op \in {"_calculate_saptamsha_number", "calculate_saptamsha_chart"} =>
          varga_ret.saptamsha_number = SaptamshaPartInSign(varga_degree)
    /\ varga_call.op = "calculate_saptamsha_chart" =>
          varga_ret.interpretation =
                 saptamsha_interpretations[SaptamshaPartInSign(varga_degree) + 1]

(***************************************************************************)
(* D1 / D9 alignment                                                       *)
(***************************************************************************)
\* the planets of the chart whose D1 sign is their D9 sign
AlignedPlanets ==
    {planet \in DOMAIN varga_info :
        varga_info[planet].sign =
            SIGNS[(NavamshaPartOf(varga_info[planet].longitude) % 12) + 1]}

\* C18: compare_d1_d9_alignment adds 10 to the score for each planet whose
\* D1 sign equals its D9 sign and reports alignment_percentage =
\* score / (10 * planet_count) * 100 for any number of planets in the
\* chart, so that the percentage is 100 exactly when every planet is
\* aligned.
C18_AlignmentPercentageOverPlanetCount ==
    (varga_call.op = "compare_d1_d9_alignment" /\ varga_ret # << >>
        /\ DOMAIN varga_info # {}) =>
        LET planet_count == Cardinality(DOMAIN varga_info)
            percentage   == varga_ret.alignment_percentage
        IN  /\ varga_ret.alignment_score = 10 * Cardinality(AlignedPlanets)
            /\ percentage.numerator * 10 * planet_count =
                   varga_ret.alignment_score * 100 * percentage.denominator
            /\ (percentage.numerator = 100 * percentage.denominator)
                   <=> (AlignedPlanets = DOMAIN varga_info)

\* angular distance in [0, 180] degrees between two longitudes on the circle
AngularDistance(a, b) == Min((a - b) % Circle, (b - a) % Circle)

\* (angle, orb) in degrees of each transit aspect, as stated
StatedTransitAspects ==
    { <<"Conjunction", 0, 6>>, <<"Sextile", 60, 4>>, <<"Square", 90, 6>>,
      <<"Trine", 120, 6>>, <<"Opposition", 180, 6>> }

TransitAspectRecorded(birth_planet, aspect_name) ==
    \E i \in 1..Len(transit_ret) :
        /\ transit_ret[i].planet = birth_planet
        /\ transit_ret[i].aspect = aspect_name

\* C19: _calculate_transit_aspects records aspect X for a natal planet with a
\* longitude if and only if the angular distance d in [0, 180] between the
\* transiting degree and the natal longitude satisfies |d - angle_X| <= orb_X,
\* with (angle, orb) Conjunction (0, 6), Sextile (60, 4), Square (90, 6),
\* Trine (120, 6), Opposition (180, 6); every natal planet is tested, the
\* transiting planet's own natal position included.
C19_TransitAspectRecordedIffWithinOrb ==
    (transit_call # NoCall /\ transit_call.op = "_calculate_transit_aspects") =>
        \A birth_planet \in DOMAIN birth_planets :
            birth_planets[birth_planet].kind = "dict" =>
                \A stated \in StatedTransitAspects :
                    LET d == AngularDistance(transit_call.current_degree,
                                             birth_planets[birth_planet].longitude)
                    IN  TransitAspectRecorded(birth_planet, stated[1])
                            <=> Abs(d - stated[2] * Res) <= stated[3] * Res

\* the Sun transits 174 degrees from its own natal longitude, across the
\* 0/360 boundary: the opposition to the natal Sun is recorded at the full orb
C19_Witness ==
    /\ transit_call # NoCall
    /\ transit_call.op = "_calculate_transit_aspects"
    /\ transit_call.planet = "Sun"
    /\ Abs(transit_call.current_degree - birth_planets["Sun"].longitude) = 186 * Res
    /\ \E i \in 1..Len(transit_ret) :
          /\ transit_ret[i].planet = "Sun"
          /\ transit_ret[i].aspect = "Opposition"
          /\ transit_ret[i].orb = 6 * Res

\* the two signs lie diametrically opposite on the 12-sign cycle
SignsOpposite(sign1, sign2) ==
    \E i, j \in 1..12 : SIGNS[i] = sign1 /\ SIGNS[j] = sign2 /\ (i - j) % 12 = 6

\* C20: _get_transit_interpretation flags opposition relative to the natal
\* sign from houses_apart = min(|i-j|, 12-|i-j|): the interpretation carries
\* the 'Opposing birth position' flag for every pair of current and natal
\* signs that are 6 signs apart, and for no other pair.
C20_OpposingFlagIffSixSignsApart ==
    (transit_call # NoCall /\ transit_call.op = "_get_transit_interpretation") =>
        (transit_ret.suffix = " (Opposing birth position - significant impact)"
            <=> SignsOpposite(transit_call.current_sign, transit_call.birth_sign))

\* C29: for a transiting degree and a natal planet with a longitude,
\* _calculate_transit_aspects records at most one aspect for that pair: the
\* orb windows around 0, 60, 90, 120 and 180 degrees do not overlap.
C29_AtMostOneAspectPerNatalPlanet ==
    (transit_call # NoCall /\ transit_call.op = "_calculate_transit_aspects") =>
        \A i, j \in 1..Len(transit_ret) :
            transit_ret[i].planet = transit_ret[j].planet => i = j

\* the transit sits 64 degrees from the natal Sun, at the edge of the sextile
\* window, and 26 degrees from the natal Moon: one sextile and nothing else
C29_Witness ==
    /\ transit_call # NoCall
    /\ transit_call.op = "_calculate_transit_aspects"
    /\ AngularDistance(transit_call.current_degree, birth_planets["Sun"].longitude) = 64 * Res
    /\ Len(transit_ret) = 1
    /\ transit_ret[1].planet = "Sun"
    /\ transit_ret[1].aspect = "Sextile"
    /\ transit_ret[1].orb = 4 * Res

\* part of its nakshatra that a longitude has traversed, as a count of 1/Circle
NakshatraFractionTraversed(lon) == (27 * (lon % Circle)) % Circle

\* C27: the Dasha balance is periodic in the Moon longitude: a calculator built
\* with moon_longitude L + 360k returns the starting lord of L and
\* remaining_years = duration * (1 - fraction of the nakshatra traversed at L).
C27_DashaBalancePeriodic ==
    (dasha_call # NoCall /\ dasha_call.op = "calculate_dasha_balance") =>
        LET lord == DASHA_ORDER[((((27 * (moon_longitude % Circle)) \div Circle) \div 3) % 9) + 1]
        IN  /\ dasha_ret.lord = lord
            /\ dasha_ret.remaining_years =
                   DASHA_DURATIONS[lord] * (Circle - NakshatraFractionTraversed(moon_longitude))

\* C28: the two nakshatra indexers agree: for every longitude the name that
\* DashaCalculator.get_nakshatra_from_longitude reports equals the name that
\* get_nakshatra reports for the same longitude, in all 27 segments.
C28_NakshatraNamesAgree ==
    \A k \in DOMAIN nak_log \cap DOMAIN dnak_log :
        dnak_log[k].name = nak_log[k].name

\* years of DASHA_ORDER[1..n], the weights of the first n sub-periods
RECURSIVE DurationOfFirst(_)
DurationOfFirst(n) == IF n = 0 THEN 0 ELSE DurationOfFirst(n - 1) + DASHA_DURATIONS[DASHA_ORDER[n]]

\* the sub-period of antar_dasha_timeline whose cumulative span covers the part
\* of the MahaDasha elapsed at birth (the last one when all of it has elapsed)
AntarDashaAtBirth(lon) ==
    LET elapsed  == MoonPositionInNakshatra(lon)
        Covers   == {n \in 1..9 : elapsed * 120 < DurationOfFirst(n) * Circle}
        n_at     == IF Covers = {} THEN 9 ELSE CHOOSE n \in Covers : \A m \in Covers : n <= m
    IN  DASHA_ORDER[n_at]

\* C30: in calculate_complete_dasha_info, current_antar_dasha is the
\* sub-period of the current MahaDasha that contains the birth instant: the
\* AntarDasha whose cumulative span covers the years of the MahaDasha already
\* elapsed at birth.
C30_CurrentAntarDashaContainsBirth ==
    (dasha_call # NoCall /\ dasha_call.op = "calculate_complete_dasha_info"
        /\ "error" \notin DOMAIN dasha_ret) =>
        dasha_ret.current_antar_dasha = AntarDashaAtBirth(moon_longitude)

StrongestListed == {asp_ret[i].planet : i \in 1..Len(asp_ret)}

\* C22: get_strongest_aspects returns a ranked list over the planets of the
\* chart in which every planet that has special aspects (Mars, Jupiter,
\* Saturn) is ranked above every planet that has only the standard 7th-house
\* aspect.
C22_StrongestRanksEveryChartPlanet ==
    (asp_call # NoCall /\ asp_call.op = "get_strongest_aspects") =>
        /\ StrongestListed = DOMAIN asp_info
        /\ \A i, j \in 1..Len(asp_ret) :
              (asp_ret[i].planet \in DOMAIN SPECIAL_ASPECTS
                  /\ asp_ret[j].planet \notin DOMAIN SPECIAL_ASPECTS) => i < j

\* C22 as amended: get_strongest_aspects lists exactly those of Mars, Jupiter
\* and Saturn that are in the chart, once each and in that order, each with
\* its three special aspects; a planet that has only the standard aspect is
\* not listed, so none is ranked above a planet with special aspects.
C22_StrongestListsSpecialPlanetsOfChart ==
    (asp_call # NoCall /\ asp_call.op = "get_strongest_aspects") =>
        /\ StrongestListed = DOMAIN asp_info \cap {"Mars", "Jupiter", "Saturn"}
        /\ \A i, j \in 1..Len(asp_ret) : asp_ret[i].planet = asp_ret[j].planet => i = j
        /\ \A i, j \in 1..Len(asp_ret) :
              (i < j) => <<asp_ret[i].planet, asp_ret[j].planet>> \in
                            {<<"Mars", "Jupiter">>, <<"Mars", "Saturn">>, <<"Jupiter", "Saturn">>}
        /\ \A i \in 1..Len(asp_ret) :
              /\ asp_ret[i].aspect_count = 3
              /\ asp_ret[i].special_aspects = SPECIAL_ASPECTS[asp_ret[i].planet]

\* a chart of eight planets without Mars: Jupiter and Saturn are listed, the
\* six planets with only the standard aspect are not
C22_Witness ==
    /\ asp_call # NoCall
    /\ asp_call.op = "get_strongest_aspects"
    /\ "Mars" \notin DOMAIN asp_info
    /\ "Sun" \in DOMAIN asp_info
    /\ Len(asp_ret) = 2
    /\ asp_ret[1].planet = "Jupiter"
    /\ asp_ret[2].planet = "Saturn"

\* sign in which the sky shows a planet days after transit_date
SkySignOnDay(planet, days) == get_zodiac_sign(PositionsOnDay(transit_sky, days)[planet])

\* scanned offsets at which a planet is seen in another sign than at the
\* scanned offset before
SignChangeOffsets(planet, days) ==
    {i \in {30 * n : n \in 1..(MaxUpcomingDays \div 30)} :
        i < days /\ SkySignOnDay(planet, i) # SkySignOnDay(planet, i - 30)}

UpcomingEntriesOf(planet) == {i \in 1..Len(transit_ret) : transit_ret[i].planet = planet}

\* C21: get_upcoming_important_transits(days) scans the offsets 0, 30, 60, ...
\* below days; when every scanned day is a date, then for each of Saturn,
\* Jupiter, Rahu and Ketu every sign change within the horizon produces
\* exactly one entry, whose days_away is the first scanned offset at which
\* the new sign is observed; a planet that changes sign once is listed once,
\* not at every later step.
C21_OneEntryPerSignChange ==
    (/\ transit_call # NoCall /\ transit_call.op = "get_upcoming_important_transits"
     /\ ~FutureDateOverflow(transit_date, transit_call.days)) =>
        \A planet \in {"Saturn", "Jupiter", "Rahu", "Ketu"} \cap DOMAIN birth_planets :
            /\ {transit_ret[i].days_away : i \in UpcomingEntriesOf(planet)}
                   = SignChangeOffsets(planet, transit_call.days)
            /\ Cardinality(UpcomingEntriesOf(planet))
                   = Cardinality(SignChangeOffsets(planet, transit_call.days))

(***************************************************************************)
(* utils/varga_calculator.py : the charts of calculate_all_vargas          *)
(***************************************************************************)
\* the keys of planets_info whose value is a dict; the chart loops skip the
\* others ("if not isinstance(planet_data, dict): continue")
DictPlanets(info) == {planet \in DOMAIN info : info[planet].kind = "dict"}

_calculate_hora(degree) ==
    LET d360             == degree % Circle
        sign_number      == d360 \div (30 * Res)
        position_in_sign == d360 % (30 * Res)
        hora_num         == IF position_in_sign < 15 * Res THEN 1 ELSE 2
        hora_lord        == IF sign_number % 2 = 0
                            THEN (IF hora_num = 1 THEN "Sun" ELSE "Moon")
                            ELSE (IF hora_num = 1 THEN "Moon" ELSE "Sun")
    IN  [hora_number |-> hora_num, hora_lord |-> hora_lord]

_calculate_varga_ascendant(ascendant_degree, division) ==
    LET varga_ascendant == (ascendant_degree * division) % Circle
        sign_num        == varga_ascendant \div (30 * Res)
    IN  SIGNS[(sign_num % 12) + 1]

_get_rasi_chart(info, ascendant_degree) ==
    [name             |-> "Rasi Chart (D1)",
     planets          |-> info,
     ascendant_degree |-> ascendant_degree]

calculate_hora_chart(info, ascendant_degree) ==
    [name      |-> "Hora Chart (D2)",
     planets   |-> [planet \in DictPlanets(info) |->
                       LET hora == _calculate_hora(info[planet].longitude)
                       IN  [original_degree |-> info[planet].longitude,
                            original_sign   |-> info[planet].sign,
                            hora_sign       |-> hora.hora_lord,
                            hora_number     |-> hora.hora_number,
                            hour            |-> hora.hora_lord]],
     ascendant |-> _calculate_varga_ascendant(ascendant_degree, 2)]

calculate_saptamsha_chart(info, ascendant_degree) ==
    [name      |-> "Saptamsha Chart (D7)",
     planets   |-> [planet \in DictPlanets(info) |->
                       SaptamshaPlacement(info[planet].longitude)],
     ascendant |-> _calculate_varga_ascendant(ascendant_degree, 7)]

calculate_navamsha_chart(info, ascendant_degree) ==
    [name      |-> "Navamsha Chart (D9)",
     planets   |-> NavamshaChartPlanets(info),
     ascendant |-> _calculate_varga_ascendant(ascendant_degree, 9)]

calculate_all_vargas(info, ascendant_degree) ==
    [D1_Rasi      |-> _get_rasi_chart(info, ascendant_degree),
     D2_Hora      |-> calculate_hora_chart(info, ascendant_degree),
     D7_Saptamsha |-> calculate_saptamsha_chart(info, ascendant_degree),
     D9_Navamsha  |-> calculate_navamsha_chart(info, ascendant_degree)]

(***************************************************************************)
(* utils/astro_utils.py : get_ruling_planet                                *)
(***************************************************************************)
\* moon_sign.strip() removes the leading and trailing whitespace before the
\* lookup.  The argument is a string; "None" stands for None (not stripped,
\* not a key).
get_ruling_planet(moon_sign) ==
    LET kept       == {k \in 1..Len(moon_sign) : SubSeq(moon_sign, k, k) \notin whitespace}
        stripped   == IF kept = {} THEN ""
                      ELSE SubSeq(moon_sign,
                                  CHOOSE k \in kept : \A m \in kept : k <= m,
                                  CHOOSE k \in kept : \A m \in kept : m <= k)
    IN  CASE stripped = "Aries"       -> "Mars"
          [] stripped = "Taurus"      -> "Venus"
          [] stripped = "Gemini"      -> "Mercury"
          [] stripped = "Cancer"      -> "Moon"
          [] stripped = "Leo"         -> "Sun"
          [] stripped = "Virgo"       -> "Mercury"
          [] stripped = "Libra"       -> "Venus"
          [] stripped = "Scorpio"     -> "Mars"
          [] stripped = "Sagittarius" -> "Jupiter"
          [] stripped = "Capricorn"   -> "Saturn"
          [] stripped = "Aquarius"    -> "Saturn"
          [] stripped = "Pisces"      -> "Jupiter"
          [] OTHER                    -> "Unknown"

(***************************************************************************)
(* utils/shad_bala_enhancer.py : EnhancedShadBalaCalculator                *)
(* A strength of calculate_aspect_strengths is kept as its numerator over  *)
(* the orb, 8 * Res: 100 * (1 - x / orb) is 100 * (orb - x) / orb.         *)
(***************************************************************************)
\* planetary_strengths.get(planet, {}).get('strength_percentage', default),
\* in tenths of a percent
StrengthPercentageOr(planetary_strengths, planet, default) ==
    IF planet \in DOMAIN planetary_strengths
       /\ "strength_percentage" \in DOMAIN planetary_strengths[planet]
    THEN planetary_strengths[planet].strength_percentage
    ELSE default

calculate_house_lord_strengths(ascendant_degree, planetary_strengths) ==
    [house_num \in 1..12 |->
        LET house_sign_num == (TruncDiv(ascendant_degree, 30 * Res) + house_num - 1) % 12
            house_lord     == get_ruling_planet(SIGNS[house_sign_num + 1])
            strength_percentage ==
                StrengthPercentageOr(planetary_strengths, house_lord, 500)
        IN  [house               |-> house_num,
             lord                |-> house_lord,
             strength_percentage |-> strength_percentage,
             status              |-> IF strength_percentage >= 700 THEN "Strong"
                                     ELSE IF strength_percentage >= 450 THEN "Moderate"
                                     ELSE "Weak"]]

\* the five checkers in the order of yoga_rules; each gives << >> (None) or
\* one <<yoga_name, planets>>
YogaResults(planetary_strengths) ==
    LET pct(planet) == StrengthPercentageOr(planetary_strengths, planet, 0)
        keys        == KeysInOrder(planetary_strengths)
        weak        == {planet \in DOMAIN planetary_strengths : pct(planet) < 350}
        strong      == {planet \in DOMAIN planetary_strengths : pct(planet) > 750}
        support     == SelectPlanets(keys, Len(keys), strong)
    IN  (IF pct("Jupiter") > 600 /\ pct("Sun") > 600
         THEN << <<"Raj Yoga", <<"Jupiter", "Sun">> >> >> ELSE << >>)
        \o (IF pct("Venus") > 650 /\ pct("Mercury") > 650
            THEN << <<"Dhana Yoga", <<"Venus", "Mercury">> >> >> ELSE << >>)
        \o (IF pct("Venus") > 700 /\ pct("Jupiter") > 700
            THEN << <<"Parivartana Yoga", <<"Venus", "Jupiter">> >> >> ELSE << >>)
        \o (IF pct("Jupiter") > 650 /\ pct("Moon") > 650
            THEN << <<"Gaja Kesari Yoga", <<"Jupiter", "Moon">> >> >> ELSE << >>)
        \o (IF weak # {} /\ Len(support) >= 2
            THEN << <<"Neecha Bhanga Yoga", SubSeq(support, 1, 2)>> >> ELSE << >>)

calculate_yogas(planetary_strengths) ==
    LET found == YogaResults(planetary_strengths)
    IN  [total_yoga_count   |-> Len(found),
         benefic_yoga_count |-> Len(found),
         malefic_yoga_count |-> 0,
         neutral_yoga_count |-> 0,
         yogas              |-> IF found = << >> THEN "None"
                                ELSE [k \in 1..Len(found) |->
                                         [yoga_name |-> found[k][1],
                                          planets   |-> found[k][2],
                                          strength  |-> 75,
                                          benefic   |-> TRUE]]]

aspect_degrees == <<0, 60, 90, 120, 180>>

\* the strength appended for one pair of longitudes, << >> when no aspect of
\* aspect_degrees is within the orb
PairAspectStrength(pos1, pos2) ==
    LET apart   == Abs(pos1 - pos2)
        diff    == IF apart > 180 * Res THEN Circle - apart ELSE apart
        orb     == 8 * Res
        matches == {k \in 1..Len(aspect_degrees) :
                        Abs(diff - aspect_degrees[k] * Res) <= orb}
    IN  IF matches = {} THEN << >>
        ELSE LET first == CHOOSE k \in matches : \A m \in matches : k <= m
             IN  << Max(0, 100 * (orb - Abs(diff - aspect_degrees[first] * Res))) >>

\* the strengths the inner loop appends for planets[i] and the planets
\* planets[i + 1] .. planets[j]
RECURSIVE PairStrengthsUpTo(_, _, _, _)
PairStrengthsUpTo(planet_longitudes, keys, i, j) ==
    IF j <= i THEN << >>
    ELSE PairStrengthsUpTo(planet_longitudes, keys, i, j - 1)
         \o PairAspectStrength(planet_longitudes[keys[i]], planet_longitudes[keys[j]])

\* the values of aspect_strengths, in key order, after the outer loop has
\* handled the first i planets
RECURSIVE AspectStrengthsAfter(_, _, _)
AspectStrengthsAfter(planet_longitudes, keys, i) ==
    IF i = 0 THEN << >>
    ELSE AspectStrengthsAfter(planet_longitudes, keys, i - 1)
         \o PairStrengthsUpTo(planet_longitudes, keys, i, Len(keys))

calculate_aspect_strengths(planet_longitudes) ==
    LET keys  == KeysInOrder(planet_longitudes)
        found == AspectStrengthsAfter(planet_longitudes, keys, Len(keys))
    IN  IF Len(found) >= 6 THEN found
        ELSE found \o [k \in 1..(6 - Len(found)) |-> 0]

(***************************************************************************)
(* services/logic.py : generate_kundali_logic                              *)
(* A call is the request (the strings birthDate, birthTime and timezone,   *)
(* latitude and longitude in 1/Res degree), what pytz does with the time   *)
(* zone, what swisseph.houses gives, the ephemeris                         *)
(* calculate_planet_positions reads, and whether the feature generator and *)
(* the dasha rules return.  The planet_positions of the handler map a      *)
(* planet to a bare longitude.                                             *)
(***************************************************************************)
OverflowError == [raised |-> "OverflowError"]

\* dt.astimezone(pytz.UTC) of the local instant dt whose zone is utcoffset
\* minutes ahead of UTC: dt - utcoffset, OverflowError when that is not a
\* datetime
astimezone(dt, utcoffset) ==
    LET minutes == dt.hour * 60 + dt.minute - utcoffset
        ordinal == toordinal(dt) + (minutes \div 1440)
    IN  IF ordinal < 1 \/ ordinal > 3652059
        THEN OverflowError
        ELSE LET date == fromordinal(ordinal)
             IN  [year   |-> date.year,
                  month  |-> date.month,
                  day    |-> date.day,
                  hour   |-> (minutes % 1440) \div 60,
                  minute |-> minutes % 60]

\* utils/astro_utils.py, get_julian_day_from_birth_details: the UTC instant
\* handed to swisseph.julday, or ValueError.  zone is what pytz does with
\* birth_details.timezone: [outcome |-> "ok", utcoffset |-> minutes] when
\* pytz.timezone and tz.localize return (utcoffset is the offset of the
\* localized instant), [outcome |-> "raise"] when one of them raises.  An
\* empty timezone is UTC and pytz.timezone is not called.
get_julian_day_from_birth_details(birth_details, zone) ==
    LET dt == strptime(birth_details.birthDate \o " " \o birth_details.birthTime, TRUE)
    IN  IF dt = ValueError
        THEN ValueError
        ELSE IF bool(birth_details.timezone) /\ zone.outcome = "raise"
        THEN ValueError
        ELSE LET utc_time == astimezone(dt, IF bool(birth_details.timezone)
                                            THEN zone.utcoffset ELSE 0)
             IN  IF utc_time = OverflowError THEN ValueError ELSE utc_time

\* utils/astro_utils.py, calculate_ascendant: the sidereal ascendant, or the
\* RuntimeError its except raises.  lat and lon are in 1/Res degree;
\* houses_result is what swisseph.houses does: [outcome |-> "ok", tropical_ascendant |-> a],
\* [outcome |-> "short"] for a result that is empty or has fewer than two
\* parts, [outcome |-> "raise"].
calculate_ascendant(lat, lon, ayanamsa, houses_result) ==
    IF ~(0 - 90 * Res <= lat /\ lat <= 90 * Res)
    THEN [status |-> "RuntimeError"]
    ELSE IF ~(0 - 180 * Res <= lon /\ lon <= 180 * Res)
    THEN [status |-> "RuntimeError"]
    ELSE IF houses_result.outcome # "ok"
    THEN [status |-> "RuntimeError"]
    ELSE [status |-> "ok", value |-> (houses_result.tropical_ascendant - ayanamsa) % Circle]

\* the planets_info a calculator receives when it is given planet_positions
FloatInfo(pp) == [planet \in DOMAIN pp |-> [kind |-> "float"]]

\* get_zodiac_sign(planet_positions.get("Moon")) guarded against a missing Moon
MoonSignOrNone(pp) ==
    IF "Moon" \in DOMAIN pp THEN get_zodiac_sign(pp["Moon"]) ELSE "None"

\* moon_sign = get_zodiac_sign(planet_positions["Moon"])
MoonSign(pp) ==
    IF "Moon" \in DOMAIN pp THEN get_zodiac_sign(pp["Moon"]) ELSE "KeyError"

\* VargaChart(**chart): the fields of the schema, ascendant defaults to None
VargaChartModel(chart) ==
    [name      |-> chart.name,
     planets   |-> chart.planets,
     ascendant |-> IF "ascendant" \in DOMAIN chart THEN chart.ascendant ELSE "None"]

\* the calculators the three inner try blocks construct; strptime raises
\* before a DashaCalculator or a StrengthCalculator is constructed.  Both
\* blocks parse the same birthDate, so birth_date is computed once.
KundaliCalculators(request, asc_deg, pp) ==
    LET asc_deg_normalized == asc_deg % Circle
        constructed(birth_date) ==
            [dasha    |-> IF birth_date = ValueError
                          THEN ValueError
                          ELSE IF "Moon" \in DOMAIN pp
                          THEN [birth_date     |-> birth_date,
                                birth_time     |-> request.birthTime,
                                moon_longitude |-> pp["Moon"]]
                          ELSE [raised |-> "KeyError"],
             strength |-> IF birth_date = ValueError
                          THEN ValueError
                          ELSE [planets_info   |-> FloatInfo(pp),
                                ascendant_sign |-> (asc_deg_normalized \div (30 * Res)) + 1,
                                birth_date     |-> birth_date],
             varga    |-> [planets_info     |-> FloatInfo(pp),
                           ascendant_degree |-> asc_deg_normalized]]
    IN  CHOOSE built \in {constructed(birth_date) :
                              birth_date \in {strptime_date(request.birthDate)}} : TRUE

\* a section of the response that is None
NoneSection == [none |-> "None"]

\* dasha_info: None when the inner try block catches an exception
DashaSection(built, rules_ok, short) ==
    IF "raised" \in DOMAIN built.dasha
    THEN NoneSection
    ELSE LET dasha_info_dict ==
                 calculate_complete_dasha_info(built.dasha.birth_date,
                                               built.dasha.moon_longitude, short)
         IN  IF dasha_info_dict.current_maha_dasha = "None" \/ ~rules_ok
             THEN NoneSection
             ELSE dasha_info_dict

\* shad_bala_info = ShaBalaInfo(**shad_bala_data); None when the inner try
\* block catches an exception
ShadBalaSection(built, asc_deg, pp) ==
    LET shad_bala_data == calculate_all_strengths(built.strength.planets_info,
                                                  built.strength.birth_date.hour)
    IN  IF "raised" \in DOMAIN built.strength THEN NoneSection ELSE
        [planetary_strengths       |-> shad_bala_data.planetary_strengths,
         chart_strength_assessment |-> shad_bala_data.chart_strength_assessment,
         house_lord_strengths      |->
             calculate_house_lord_strengths(asc_deg % Circle,
                                            shad_bala_data.planetary_strengths),
         yogas                     |-> calculate_yogas(shad_bala_data.planetary_strengths),
         aspect_strengths          |-> calculate_aspect_strengths(pp)]

\* divisional_charts_info = DivisionalChartsInfo(...)
DivisionalChartsSection(built) ==
    LET vargas_data == calculate_all_vargas(built.varga.planets_info,
                                            built.varga.ascendant_degree)
    IN  [D1_Rasi            |-> VargaChartModel(vargas_data.D1_Rasi),
         D2_Hora            |-> VargaChartModel(vargas_data.D2_Hora),
         D7_Saptamsha       |-> VargaChartModel(vargas_data.D7_Saptamsha),
         D9_Navamsha        |-> VargaChartModel(vargas_data.D9_Navamsha),
         alignment_analysis |-> compare_d1_d9_alignment(built.varga.planets_info)]

HTTPException == [status |-> "HTTPException", status_code |-> 500]

\* the KundaliResponse built from the positions
KundaliResponse(call, asc_deg, pp) ==
    LET asc_nakshatra      == get_nakshatra(asc_deg)
        asc_deg_normalized == asc_deg % Circle
        house_assignments  == assign_planets_to_houses(pp, KeysInOrder(pp), asc_deg)
        moon_sign          == MoonSign(pp)
        built              == KundaliCalculators(call.request, asc_deg, pp)
    IN  [status        |-> "ok",
         ascendant     |-> [index     |-> (asc_deg_normalized \div (30 * Res)) + 1,
                            longitude |-> asc_deg_normalized,
                            sign      |-> get_zodiac_sign(asc_deg),
                            nakshatra |-> asc_nakshatra.name,
                            pada      |-> asc_nakshatra.pada],
         planets       |-> [planet \in DOMAIN pp |->
                               [longitude |-> pp[planet],
                                sign      |-> get_zodiac_sign(pp[planet]),
                                nakshatra |-> get_nakshatra(pp[planet]).name,
                                pada      |-> get_nakshatra(pp[planet]).pada,
                                house     |->
                                    CHOOSE h \in 1..12 :
                                        \E k \in 1..Len(house_assignments[h]) :
                                            house_assignments[h][k] = planet]],
         houses        |-> [house \in 1..12 |->
                               [sign    |-> ((TruncDiv(asc_deg, 30 * Res) + house - 1) % 12) + 1,
                                planets |-> house_assignments[house]]],
         zodiac_sign   |-> moon_sign,
         ruling_planet |-> get_ruling_planet(moon_sign),
         dasha         |-> DashaSection(built, call.rules_ok, call.short),
         shad_bala     |-> ShadBalaSection(built, asc_deg, pp),
         divisional_charts |-> DivisionalChartsSection(built)]

\* the ascendant of the call
CallAscendant(call) ==
    calculate_ascendant(call.request.latitude, call.request.longitude,
                        call.ephemeris.ayanamsa, call.houses_result)

\* the response, or the HTTPException of the outer except
generate_kundali_logic(call) ==
    LET asc      == CallAscendant(call)
        computed == calculate_planet_positions(call.ephemeris, FALSE)
    IN  IF get_julian_day_from_birth_details(call.request, call.zone) = ValueError
        THEN HTTPException
        ELSE IF asc.status # "ok"
        THEN HTTPException
        ELSE IF computed.status # "ok"
        THEN HTTPException
        ELSE IF MoonSign(computed.value) = "KeyError" \/ ~call.ml_ok
             THEN HTTPException
             ELSE KundaliResponse(call, asc.value, computed.value)

(***************************************************************************)
(* generate_kundali_logic: one request against an ephemeris.               *)
(***************************************************************************)
KundaliRahuLongitudes == {0, 8 * RahuStep * Res}

\* requests: an ordinary day at noon and late in the evening, the first and
\* the last day of datetime, a date and a time written unpadded, a date with
\* a blank after it (which the pattern of get_julian_day_from_birth_details
\* accepts and that of strptime_date does not), a day that does not exist
\* and an hour that does not exist; then no time zone, a latitude and a
\* longitude out of range
KundaliBirthDetails ==
    {[birthDate |-> "2000-01-01",  birthTime |-> "12:00"],
     [birthDate |-> "2000-01-01",  birthTime |-> "23:00"],
     [birthDate |-> "0001-01-01",  birthTime |-> "01:00"],
     [birthDate |-> "9999-12-31",  birthTime |-> "12:00"],
     [birthDate |-> "2000-1-1",    birthTime |-> "7:5"],
     [birthDate |-> "2000-01-01 ", birthTime |-> "23:00"],
     [birthDate |-> "2001-02-29",  birthTime |-> "12:00"],
     [birthDate |-> "2000-01-01",  birthTime |-> "24:00"]}

KundaliRequests ==
    {[birthDate |-> d.birthDate, birthTime |-> d.birthTime,
      latitude |-> 27 * Res + 1, longitude |-> 85 * Res,
      timezone |-> "Asia/Kathmandu"] : d \in KundaliBirthDetails}
    \cup {[birthDate |-> "9999-12-31", birthTime |-> "12:00",
           latitude |-> 0 - 90 * Res, longitude |-> 180 * Res, timezone |-> ""],
          [birthDate |-> "2000-01-01", birthTime |-> "12:00",
           latitude |-> 90 * Res + 1, longitude |-> 85 * Res, timezone |-> "UTC"],
          [birthDate |-> "2000-01-01", birthTime |-> "12:00",
           latitude |-> 27 * Res + 1, longitude |-> 0 - 180 * Res - 1, timezone |-> "UTC"]}

\* what pytz does: a zone 5:45 ahead of UTC, a zone 12 hours behind it, and
\* a name pytz does not know
KundaliZones ==
    {[outcome |-> "ok", utcoffset |-> 345],
     [outcome |-> "ok", utcoffset |-> 0 - 720],
     [outcome |-> "raise"]}

KundaliAscendants == {0, 123 * Res + 1}

\* what swisseph.houses does: the tropical ascendants that give the sidereal
\* ascendants above, a short result and an exception
KundaliHouses ==
    {[outcome |-> "ok", tropical_ascendant |-> asc_deg + AyanamsaDegrees * Res] :
        asc_deg \in KundaliAscendants}
    \cup {[outcome |-> "short"], [outcome |-> "raise"]}

KundaliEphemerides ==
    {e \in EphemerisInputs :
        /\ e.planets["Rahu"].outcome \in {"ok", "raise_twice"}
        /\ e.planets["Rahu"].tropical_longitude \in KundaliRahuLongitudes
        /\ e.planets["Rahu"].speed < 0}

\* the roundings calculate_complete_dasha_info can take for this ephemeris
KundaliAgeRoundings(eph) ==
    LET computed == calculate_planet_positions(eph, FALSE)
    IN  IF computed.status = "ok" /\ "Moon" \in DOMAIN computed.value
        THEN AgeRoundings(computed.value["Moon"])
        ELSE {0}

InitKundali ==
    /\ kundali_call = NoCall
    /\ kundali_built = << >>
    /\ kundali_ret = << >>
    /\ IdleExceptKundali

GenerateKundaliLogic(request, zone, houses_result, eph, ml_ok, rules_ok, short) ==
    LET call     == [request |-> request, zone |-> zone, houses_result |-> houses_result,
                     ephemeris |-> eph, ml_ok |-> ml_ok, rules_ok |-> rules_ok,
                     short |-> short]
        computed == calculate_planet_positions(eph, FALSE)
        ret      == generate_kundali_logic(call)
    IN  /\ kundali_call = NoCall
        /\ kundali_call' = call
        /\ kundali_built' = IF ret.status = "ok"
                            THEN KundaliCalculators(request, CallAscendant(call).value,
                                                    computed.value)
                            ELSE << >>
        /\ kundali_ret' = ret
        /\ UNCHANGED exceptKundali

NextKundali ==
    \E request \in KundaliRequests, zone \in KundaliZones,
       houses_result \in KundaliHouses,
       eph \in KundaliEphemerides, ml_ok \in BOOLEAN, rules_ok \in BOOLEAN :
        \E short \in KundaliAgeRoundings(eph) :
            GenerateKundaliLogic(request, zone, houses_result, eph, ml_ok, rules_ok, short)

SpecKundali == InitKundali /\ [][NextKundali]_vars

KundaliTypeOK == kundali_ret = << >> \/ kundali_ret.status \in {"ok", "HTTPException"}

(***************************************************************************)
(* Properties of generate_kundali_logic                                    *)
(***************************************************************************)
KundaliReturned == kundali_call # NoCall /\ kundali_ret.status = "ok"

\* the ephemeris step gave no position for the Moon
MoonUnavailable(call) ==
    LET computed == calculate_planet_positions(call.ephemeris, FALSE)
    IN  computed.status # "ok" \/ "Moon" \notin DOMAIN computed.value

\* C24: when the ephemeris step yields no position for the Moon,
\* generate_kundali_logic raises (HTTPException, status 500) and returns no
\* chart record, not a chart whose Dasha section alone is missing.
C24_NoChartWithoutMoon ==
    (kundali_call # NoCall /\ MoonUnavailable(kundali_call))
        => /\ kundali_ret = HTTPException
           /\ kundali_built = << >>

\* the Moon alone is missing: the birth details give a Julian day and an
\* ascendant, every other planet has a position and both collaborators
\* return, and the call has raised
C24_Witness ==
    /\ kundali_call # NoCall
    /\ get_julian_day_from_birth_details(kundali_call.request, kundali_call.zone)
           # ValueError
    /\ CallAscendant(kundali_call).status = "ok"
    /\ kundali_call.ephemeris.planets["Moon"].outcome = "raise_twice"
    /\ \A planet \in DOMAIN kundali_call.ephemeris.planets :
           planet # "Moon" => kundali_call.ephemeris.planets[planet].outcome = "ok"
    /\ kundali_call.ml_ok /\ kundali_call.rules_ok
    /\ kundali_ret.status = "HTTPException"

\* a strength profile: a total, a percentage and the six sub-scores
IsStrengthProfile(entry) ==
    /\ "error" \notin DOMAIN entry
    /\ {"total_strength", "strength_percentage", "breakdown"} \subseteq DOMAIN entry
    /\ DOMAIN entry.breakdown = {"sthana_bala", "dig_bala", "kala_bala", "chesta_bala",
                                 "naisargika_bala", "drishti_bala"}

\* the chart is returned and its birthDate parsed, so that a
\* StrengthCalculator was constructed
StrengthCalculatorBuilt == KundaliReturned /\ "raised" \notin DOMAIN kundali_built.strength

\* C25: in a returned chart whose StrengthCalculator was constructed,
\* shad_bala.planetary_strengths holds for every planet of the chart a
\* strength profile (total, percentage, six sub-scores), never an error
\* record.
C25_EveryPlanetHasStrengthProfile ==
    StrengthCalculatorBuilt =>
        /\ kundali_ret.shad_bala # NoneSection
        /\ \A planet \in DOMAIN kundali_ret.planets :
               /\ planet \in DOMAIN kundali_ret.shad_bala.planetary_strengths
               /\ IsStrengthProfile(kundali_ret.shad_bala.planetary_strengths[planet])

\* C26: the birth instant handed to StrengthCalculator carries the hour of
\* the request's birthTime, so Kala Bala is evaluated with that hour.
C26_StrengthBirthHourIsRequestHour ==
    StrengthCalculatorBuilt =>
        kundali_built.strength.birth_date.hour
            = strptime(kundali_call.request.birthDate \o " "
                           \o kundali_call.request.birthTime, TRUE).hour

\* what calculate_all_strengths returned cannot be used: a planet has an
\* error record, or there is no chart assessment
UnusableStrengths(shad_bala_data) ==
    \/ shad_bala_data.chart_strength_assessment = << >>
    \/ \E planet \in DOMAIN shad_bala_data.planetary_strengths :
           "error" \in DOMAIN shad_bala_data.planetary_strengths[planet]

\* what the VargaCalculator returned cannot be used: a divisional chart
\* places none of the planets, or there is no alignment analysis
UnusableVargas(planets_info, ascendant_degree) ==
    LET vargas_data == calculate_all_vargas(planets_info, ascendant_degree)
    IN  \/ compare_d1_d9_alignment(planets_info) = << >>
        \/ DOMAIN vargas_data.D2_Hora.planets = {}
        \/ DOMAIN vargas_data.D7_Saptamsha.planets = {}
        \/ DOMAIN vargas_data.D9_Navamsha.planets = {}

\* what the DashaCalculator returned cannot be used: it is the error dict
UnusableDasha(dasha, short) ==
    "error" \in DOMAIN calculate_complete_dasha_info(dasha.birth_date,
                                                     dasha.moon_longitude, short)

\* C23: the Dasha, Shad Bala and Varga sections are fault-isolated: a
\* section whose calculation raised or returned unusable data is None in
\* the returned chart, and a section whose calculation worked is present.
C23_FailedSectionsAreAbsent ==
    KundaliReturned =>
        /\ (kundali_ret.dasha = NoneSection)
               <=> (\/ "raised" \in DOMAIN kundali_built.dasha
                    \/ UnusableDasha(kundali_built.dasha, kundali_call.short)
                    \/ ~kundali_call.rules_ok)
        /\ (\/ "raised" \in DOMAIN kundali_built.strength
            \/ UnusableStrengths(
                   calculate_all_strengths(kundali_built.strength.planets_info,
                                           kundali_built.strength.birth_date.hour)))
               => kundali_ret.shad_bala = NoneSection
        /\ UnusableVargas(kundali_built.varga.planets_info,
                          kundali_built.varga.ascendant_degree)
               => kundali_ret.divisional_charts = NoneSection

====
